---- MODULE Spec2Model ----
(***************************************************************************)
(* Spreadsheet write-reconciliation of the PostToGoogleSpreadsheet and     *)
(* PostToMicrosoftSpreadsheet processors.                                  *)
(*                                                                         *)
(* The destination is one worksheet, held as a grid of cell strings ("" is *)
(* an empty cell).  One invocation of transform() is one action; the calls *)
(* it issues to the spreadsheet service are logged in `calls`, in order.   *)
(* At most one call of an invocation is answered with an error status      *)
(* (`fault` is the position of that call, 0 for none).                     *)
(*                                                                         *)
(* The merge-by-key utility merge_data is a second state machine           *)
(* (MergeSpec): one run merges the records of a patch file into those of   *)
(* an input file and saves the result.                                     *)
(*                                                                         *)
(* Helper methods are run on their own: the column letter conversions      *)
(* (ColumnSpec), merge_data with JSON sub-paths (PathSpec) and _parse_json *)
(* (ParseSpec).                                                            *)
(*                                                                         *)
(* The state processors run as concurrent invocations whose steps          *)
(* interleave: StatefulCounter (CounterSpec), ManageState on the NiFi      *)
(* State Manager (ManagerSpec) and on a JSON file (FileSpec).  The state   *)
(* manager's replace is an atomic compare-and-set on the version; what the *)
(* Python side gets back from it is the boolean or None.                   *)
(***************************************************************************)
EXTENDS Integers, Sequences, FiniteSets, TLC

VARIABLES
    backend,    \* "google" | "microsoft": which processor this instance is
    sheet,      \* the worksheet: sequence of rows from row 1, each a sequence of cells from column A
    pc,         \* "idle" | "done" | "delivered": before the invocation / it has returned / the host has its result
    inv,        \* the configuration and parsed input of the invocation that returned
    prev,       \* the worksheet as it was when that invocation started
    result,     \* what transform() returned: relationship, rows_written, error
    calls,      \* the calls that invocation issued to the service, in order
    merge_pc,   \* merge_data: "idle" | "done" ("off" while the spreadsheet processors are looked at)
    input,      \* the records of the JSON array in the input file
    patch,      \* the records of the JSON array in the patch file
    output,     \* the records of the JSON array in the output file, <<>> before it is written
    returned,   \* what merge_data returned: "" for None, a message otherwise
    call_pc,    \* a helper method run on its own: "idle", then the name of the step that ran last
    argument,   \* the argument it is called with
    outcome,    \* what it has computed so far
    store,      \* the state the state processors keep: the state manager's map and version, or the JSON file
    workers,    \* the concurrent invocations of a state processor: position, loop index, what each fetched
    replace_returns  \* what StateManager.replace hands back to Python: "boolean" or "None"

spreadsheetVars == <<backend, sheet, pc, inv, prev, result, calls>>

mergeVars == <<merge_pc, input, patch, output, returned>>

methodVars == <<call_pc, argument, outcome>>

stateVars == <<store, workers, replace_returns>>

vars == <<backend, sheet, pc, inv, prev, result, calls, merge_pc, input, patch, output, returned,
          call_pc, argument, outcome, store, workers, replace_returns>>

-----------------------------------------------------------------------------
(* Bounds *)

\* most data rows in one incoming payload
MaxRows == 2

\* most records in the input file and in the patch file of one merge
MaxRecords == 2

\* the largest column number converted to letters and back
MaxColumn == 1000

-----------------------------------------------------------------------------
(* Sequences *)

Max(a, b) == IF a >= b THEN a ELSE b

Min(a, b) == IF a <= b THEN a ELSE b

Range(s) == {s[i] : i \in 1..Len(s)}

\* list.index(x): the first position of x
IndexOf(s, x) == CHOOSE i \in 1..Len(s) : s[i] = x /\ \A j \in 1..(i - 1) : s[j] # x

\* the sequences over S of length lo..hi
SeqsOf(S, lo, hi) == UNION {[1..n -> S] : n \in lo..hi}

-----------------------------------------------------------------------------
(* The worksheet grid *)

Cell(s, r, c) == IF r \in 1..Len(s) /\ c \in 1..Len(s[r]) THEN s[r][c] ELSE ""

\* number of cells of a row up to its last non-empty one
RowWidth(row) ==
    IF \E i \in 1..Len(row) : row[i] # ""
    THEN CHOOSE i \in 1..Len(row) : row[i] # "" /\ \A j \in (i + 1)..Len(row) : row[j] = ""
    ELSE 0

TrimRow(row) == SubSeq(row, 1, RowWidth(row))

\* a grid without trailing empty cells and trailing empty rows
Normalize(s) ==
    LET t == [r \in 1..Len(s) |-> TrimRow(s[r])]
        last == IF \E r \in 1..Len(t) : t[r] # <<>>
                THEN CHOOSE r \in 1..Len(t) : t[r] # <<>> /\ \A q \in (r + 1)..Len(t) : t[q] = <<>>
                ELSE 0
    IN  SubSeq(t, 1, last)

\* the grid after `values` (a list of rows) is stored with its first cell at (r0, c0)
PutValues(s, r0, c0, values) ==
    LET rows == Max(Len(s), r0 + Len(values) - 1)
        inBlock(r, c) == /\ r \in r0..(r0 + Len(values) - 1)
                         /\ c \in c0..(c0 + Len(values[r - r0 + 1]) - 1)
        rowAt(r) == IF r <= Len(s) THEN s[r] ELSE <<>>
        width(r) == IF r \in r0..(r0 + Len(values) - 1)
                    THEN Max(Len(rowAt(r)), c0 + Len(values[r - r0 + 1]) - 1)
                    ELSE Len(rowAt(r))
    IN  Normalize([r \in 1..rows |->
            [c \in 1..width(r) |->
                IF inBlock(r, c) THEN values[r - r0 + 1][c - c0 + 1] ELSE Cell(s, r, c)]])

FirstUsedRow(s) == CHOOSE r \in 1..Len(s) : s[r] # <<>> /\ \A q \in 1..(r - 1) : s[q] = <<>>

FirstUsedCol(s) ==
    LET first(row) == CHOOSE c \in 1..Len(row) : row[c] # "" /\ \A d \in 1..(c - 1) : row[d] = ""
        used == {r \in 1..Len(s) : s[r] # <<>>}
    IN  CHOOSE c \in {first(s[r]) : r \in used} : \A r \in used : c <= first(s[r])

LastUsedCol(s) == CHOOSE c \in {Len(s[r]) : r \in 1..Len(s)} : \A r \in 1..Len(s) : Len(s[r]) <= c

-----------------------------------------------------------------------------
(* Column letters and cell addresses *)

Letters == <<"A", "B", "C", "D", "E", "F", "G", "H", "I", "J", "K", "L", "M",
             "N", "O", "P", "Q", "R", "S", "T", "U", "V", "W", "X", "Y", "Z">>

LowerLetters == <<"a", "b", "c", "d", "e", "f", "g", "h", "i", "j", "k", "l", "m",
                  "n", "o", "p", "q", "r", "s", "t", "u", "v", "w", "x", "y", "z">>

Digits == <<"0", "1", "2", "3", "4", "5", "6", "7", "8", "9">>

\* str.upper() of one character
Upper(ch) == IF ch \in Range(LowerLetters) THEN Letters[IndexOf(LowerLetters, ch)] ELSE ch

RECURSIVE _column_letter(_)
\* column number -> letters (1 -> A, 26 -> Z, 27 -> AA), as a sequence of characters
_column_letter(col_num) ==
    IF col_num <= 0 THEN <<>>
    ELSE _column_letter((col_num - 1) \div 26) \o <<Letters[((col_num - 1) % 26) + 1]>>

\* a conversion that reads the last letter only
LastLetterNumber(col_letter) == IndexOf(Letters, Upper(col_letter[Len(col_letter)]))

RECURSIVE _column_number(_)
\* letters -> column number (A -> 1, AA -> 27)
_column_number(col_letter) ==
    IF col_letter = <<>> THEN 0
    ELSE _column_number(SubSeq(col_letter, 1, Len(col_letter) - 1)) * 26
         + IndexOf(Letters, Upper(col_letter[Len(col_letter)]))

RECURSIVE DecimalValue(_)
\* int() of a sequence of digit characters
DecimalValue(ds) ==
    IF ds = <<>> THEN 0
    ELSE DecimalValue(SubSeq(ds, 1, Len(ds) - 1)) * 10 + (IndexOf(Digits, ds[Len(ds)]) - 1)

\* length of the longest prefix of s, from position `from`, whose characters are in S
RunLength(s, from, S) ==
    CHOOSE k \in 0..(Len(s) - from + 1) :
        /\ \A i \in from..(from + k - 1) : s[i] \in S
        /\ (from + k <= Len(s) => s[from + k] \notin S)

\* re.match(r'([A-Z]+)(\d+)', start_cell.upper()): a prefix match
StartCellMatch(start_cell) ==
    LET u == [i \in 1..Len(start_cell) |-> Upper(start_cell[i])]
        k == RunLength(u, 1, Range(Letters))
        m == RunLength(u, k + 1, Range(Digits))
    IN  [matched |-> k >= 1 /\ m >= 1,
         col     |-> SubSeq(u, 1, k),
         row     |-> DecimalValue(SubSeq(u, k + 1, k + m))]

\* whether the service accepts the text as the address of one cell (A1 notation)
IsCellAddress(start_cell) ==
    LET m == StartCellMatch(start_cell)
    IN  m.matched /\ Len(m.col) + RunLength(start_cell, Len(m.col) + 1, Range(Digits)) = Len(start_cell)
        /\ m.row >= 1

\* a range address as the processors write it, e.g. A2:C2
Address(c1, r1, c2, r2) == [c1 |-> c1, r1 |-> r1, c2 |-> c2, r2 |-> r2]

-----------------------------------------------------------------------------
(* The spreadsheet service: what each request does to the worksheet *)

\* one logged request: what was asked, whether it was answered with success, the
\* first row and column of the addressed range (0 when it names none), the rows sent
Call(op, ok, row, col, values) == [op |-> op, ok |-> ok, row |-> row, col |-> col, values |-> values]

\* the request about to be issued is answered with success unless it is the faulted one
Answer(cs, fault) == Len(cs) + 1 # fault

\* Google values.get on the whole sheet: rows from row 1, trailing empty cells and rows left out
GoogleValues(s) == Normalize(s)

\* Google values:append on the whole sheet: below the last row of the data, from its first column
GoogleAppendValues(s, values) ==
    IF Normalize(s) = <<>> THEN PutValues(s, 1, 1, values)
    ELSE PutValues(s, Len(Normalize(s)) + 1, FirstUsedCol(Normalize(s)), values)

\* Microsoft usedRange: the smallest rectangle holding every non-empty cell; the
\* single cell A1 when the worksheet is blank
UsedRangeValues(s) ==
    LET n == Normalize(s)
    IN  IF n = <<>> THEN << <<"">> >>
        ELSE LET r1 == FirstUsedRow(n)
                 c1 == FirstUsedCol(n)
                 c2 == LastUsedCol(n)
             IN  [r \in 1..(Len(n) - r1 + 1) |->
                    [c \in 1..(c2 - c1 + 1) |-> Cell(n, r1 + r - 1, c1 + c - 1)]]

\* Microsoft range PATCH: the values must have the shape of the addressed range
ShapeMatches(addr, values) ==
    /\ Len(values) = addr.r2 - addr.r1 + 1
    /\ \A i \in 1..Len(values) :
          Len(values[i]) = _column_number(addr.c2) - _column_number(addr.c1) + 1

\* the grid with every cell of the addressed range emptied
ClearCells(s, addr) ==
    Normalize([r \in 1..Len(s) |->
        [c \in 1..Len(s[r]) |->
            IF /\ r \in addr.r1..addr.r2
               /\ c \in _column_number(addr.c1).._column_number(addr.c2)
            THEN "" ELSE s[r][c]]])

-----------------------------------------------------------------------------
(* One invocation in progress: the worksheet, the request log and the locals of
   the method being run.  err is the exception that was raised ("" for none); a
   step that finds one raised passes the record on untouched, as the code after
   a raise is not run. *)

Ctx(s, fault) ==
    [sheet |-> s, calls |-> <<>>, fault |-> fault, err |-> "",
     ok |-> TRUE,                  \* the last request was answered with success
     session_id |-> FALSE,         \* a workbook session is held
     data |-> <<>>,                \* existing_data, as last fetched
     existing_headers |-> <<>>, existing_rows |-> <<>>, unrecognized_headers |-> {},
     updates |-> <<>>, remapped_rows |-> <<>>,
     count |-> 0, rows_updated |-> 0, rows_inserted |-> 0]

\* issue one request; `acceptable` is whether the service can accept it at all
Request(c, op, row, col, values, acceptable) ==
    [c EXCEPT !.calls = Append(@, Call(op, Answer(c.calls, c.fault) /\ acceptable, row, col, values)),
              !.ok = Answer(c.calls, c.fault) /\ acceptable]

Raise(c, e) == [c EXCEPT !.err = e]

\* response.raise_for_status() / the status check after a request, then `return n`
Returned(c, n) == IF c.ok THEN [c EXCEPT !.count = n] ELSE Raise(c, "Backend")

\* the values reach the worksheet when the request was answered with success
Stored(c, r0, c0, values) ==
    IF c.ok THEN [c EXCEPT !.sheet = PutValues(@, r0, c0, values)] ELSE c

-----------------------------------------------------------------------------
(* PostToGoogleSpreadsheet: APPEND and REPLACE *)

G_fetched(c) == IF c.ok THEN [c EXCEPT !.data = GoogleValues(c.sheet)] ELSE Raise(c, "Backend")

\* _get_sheet_data: the values of the sheet, [] for a sheet without values
G_get_sheet_data(c) ==
    IF c.err # "" THEN c ELSE G_fetched(Request(c, "fetch", 0, 0, <<>>, TRUE))

G_appended(c, values) == IF c.ok THEN [c EXCEPT !.sheet = GoogleAppendValues(@, values)] ELSE c

G_append_values(c, headers, rows, include_header) ==
    IF c.err # "" THEN c
    ELSE LET is_new_sheet == c.data = <<>>
             values_to_append == (IF is_new_sheet /\ include_header THEN <<headers>> ELSE <<>>) \o rows
         IN  Returned(G_appended(Request(c, "append", 0, 0, values_to_append, TRUE), values_to_append),
                      Len(rows))

G_append_rows(c, headers, rows, include_header) ==
    G_append_values(G_get_sheet_data(c), headers, rows, include_header)

G_cleared(c) == IF c.ok THEN [c EXCEPT !.sheet = <<>>] ELSE Raise(c, "Backend")

G_write_values(c, headers, rows, start_cell, include_header) ==
    IF c.err # "" THEN c
    ELSE LET values_to_write == (IF include_header THEN <<headers>> ELSE <<>>) \o rows
             at == StartCellMatch(start_cell)
             valid == IsCellAddress(start_cell)
             row == IF valid THEN at.row ELSE 0
             col == IF valid THEN _column_number(at.col) ELSE 0
         IN  Returned(Stored(Request(c, "write", row, col, values_to_write, valid),
                             row, col, values_to_write),
                      Len(rows))

G_replace_all(c, headers, rows, start_cell, include_header) ==
    IF c.err # "" THEN c
    ELSE G_write_values(G_cleared(Request(c, "clear", 0, 0, <<>>, TRUE)),
                        headers, rows, start_cell, include_header)

-----------------------------------------------------------------------------
(* PostToMicrosoftSpreadsheet: session, APPEND and REPLACE *)

\* last row of the range _replace_all clears (A1:ZZ100000)
ClearLastRow == 100000

M_session(c) == [c EXCEPT !.session_id = c.ok]

\* _create_session: a session id, or None (FALSE) when the service refuses
M_create_session(c) == M_session(Request(c, "createSession", 0, 0, <<>>, TRUE))

\* _close_session: nothing is sent without a session id
M_close_session(c) ==
    IF ~c.session_id THEN c ELSE Request(c, "closeSession", 0, 0, <<>>, TRUE)

\* a range PATCH of the service: logged with its address, applied when accepted
M_patch_range(c, op, addr, values) ==
    Stored(Request(c, op, addr.r1, _column_number(addr.c1), values,
                   ShapeMatches(addr, values) /\ addr.r1 >= 1),
           addr.r1, _column_number(addr.c1), values)

M_fetched(c) == IF c.ok THEN [c EXCEPT !.data = UsedRangeValues(c.sheet)] ELSE Raise(c, "Backend")

\* _get_worksheet_range: the values of the used range
M_get_worksheet_range(c) ==
    IF c.err # "" THEN c ELSE M_fetched(Request(c, "fetch", 0, 0, <<>>, TRUE))

M_append_values(c, headers, rows, include_header) ==
    IF c.err # "" THEN c
    ELSE LET existing_data == c.data
             is_new_worksheet == existing_data = <<>>
             values_to_append == (IF is_new_worksheet /\ include_header THEN <<headers>> ELSE <<>>) \o rows
             start_row == IF existing_data # <<>> THEN Len(existing_data) + 1 ELSE 1
             end_col == _column_letter(Len(headers))
             range_address == Address(<<"A">>, start_row, end_col, start_row + Len(values_to_append) - 1)
         IN  Returned(M_patch_range(c, "append", range_address, values_to_append), Len(rows))

M_append_rows(c, headers, rows, include_header) ==
    M_append_values(M_get_worksheet_range(c), headers, rows, include_header)

\* a refused clear is logged as a warning and the write goes on
M_cleared(c) ==
    IF c.ok THEN [c EXCEPT !.sheet = ClearCells(@, Address(<<"A">>, 1, <<"Z", "Z">>, ClearLastRow))]
    ELSE c

M_write_values(c, headers, rows, start_cell, include_header) ==
    LET values_to_write == (IF include_header THEN <<headers>> ELSE <<>>) \o rows
        match == StartCellMatch(start_cell)
        start_col_letter == match.col
        start_row == match.row
        end_col == _column_letter(_column_number(start_col_letter) + Len(headers) - 1)
        end_row == start_row + Len(values_to_write) - 1
        range_address == Address(start_col_letter, start_row, end_col, end_row)
    IN  IF ~match.matched THEN Raise(c, "InvalidRange")
        ELSE Returned(M_patch_range(c, "write", range_address, values_to_write), Len(rows))

M_replace_all(c, headers, rows, start_cell, include_header) ==
    IF c.err # "" THEN c
    ELSE M_write_values(M_cleared(Request(c, "clear", 1, 1, <<>>, TRUE)),
                        headers, rows, start_cell, include_header)

-----------------------------------------------------------------------------
(* Header reconciliation and row matching, as both processors code them *)

\* the header names an incoming payload may carry, in sorted() order
HeaderOrder == <<"id", "name", "x", "y">>

\* sorted(S) for a set of header names
Sorted(S) == SelectSeq(HeaderOrder, LAMBDA h : h \in S)

\* {headers[i]: row[i] if i < len(row) else '' ...}: a later duplicate header wins
RowDict(headers, row) ==
    [h \in Range(headers) |->
        LET i == CHOOSE j \in 1..Len(headers) :
                    headers[j] = h /\ \A k \in (j + 1)..Len(headers) : headers[k] # h
        IN  IF i <= Len(row) THEN row[i] ELSE ""]

\* dict.get(key, '')
DictGet(d, key) == IF key \in DOMAIN d THEN d[key] ELSE ""

\* a comparison that finds every incoming header among the destination headers
NoneUnrecognized(headers, existing_headers) == {}

\* set(headers) - set(existing_headers)
Unrecognized(headers, existing_headers) == Range(headers) \ Range(existing_headers)

\* a check that finds every identifier field among the headers
NoMissingIdentifier(identifier_fields, existing_headers) == 0

\* the identifier field that is no destination header, if any (the first one)
MissingIdentifier(identifier_fields, existing_headers) ==
    LET bad == {i \in 1..Len(identifier_fields) : identifier_fields[i] \notin Range(existing_headers)}
    IN  IF bad = {} THEN 0 ELSE CHOOSE i \in bad : \A j \in bad : i <= j

IdentifierIndices(identifier_fields, existing_headers) ==
    [k \in 1..Len(identifier_fields) |-> IndexOf(existing_headers, identifier_fields[k])]

\* value.strip().lower(), for the values the worksheets and payloads hold
Fold(v) == IF v \in {"B", " b"} THEN "b" ELSE v

\* an identity tuple of the existing row taken after stripping and lower-casing
FoldedKey(row, identifier_indices) ==
    [k \in 1..Len(identifier_indices) |->
        IF identifier_indices[k] <= Len(row) THEN Fold(row[identifier_indices[k]]) ELSE ""]

\* tuple(row[i] if i < len(row) else '' for i in identifier_indices)
ExistingKey(row, identifier_indices) ==
    [k \in 1..Len(identifier_indices) |->
        IF identifier_indices[k] <= Len(row) THEN row[identifier_indices[k]] ELSE ""]

\* a lookup map in which the first row with an identity tuple is kept
FirstRowMap(existing_rows, identifier_indices) ==
    LET keyOf(j) == ExistingKey(existing_rows[j], identifier_indices)
    IN  [key \in {keyOf(j) : j \in 1..Len(existing_rows)} |->
            LET j == CHOOSE a \in 1..Len(existing_rows) :
                        keyOf(a) = key /\ \A b \in 1..(a - 1) : keyOf(b) # key
            IN  (j - 1) + 2]

\* existing_map: identity tuple -> row number; a later row with the same tuple wins
ExistingMap(existing_rows, identifier_indices) ==
    LET keyOf(j) == ExistingKey(existing_rows[j], identifier_indices)
    IN  [key \in {keyOf(j) : j \in 1..Len(existing_rows)} |->
            LET j == CHOOSE a \in 1..Len(existing_rows) :
                        keyOf(a) = key /\ \A b \in (a + 1)..Len(existing_rows) : keyOf(b) # key
            IN  (j - 1) + 2]

\* tuple(row_dict.get(field, '') for field in identifier_fields)
IncomingKey(headers, row, identifier_fields) ==
    [k \in 1..Len(identifier_fields) |-> DictGet(RowDict(headers, row), identifier_fields[k])]

\* per incoming row: the row number it matches in existing_map, 0 when it matches none
RowNumbers(headers, rows, identifier_fields, existing_map) ==
    [i \in 1..Len(rows) |->
        LET key == IncomingKey(headers, rows[i], identifier_fields)
        IN  IF key \in DOMAIN existing_map THEN existing_map[key] ELSE 0]

\* the incoming row laid out in destination header order
UpdatedRow(headers, row, existing_headers, strategy, unrecognized_headers) ==
    LET kept == SelectSeq(existing_headers,
                          LAMBDA h : ~(strategy = "IGNORE_FIELDS" /\ h \in unrecognized_headers))
    IN  [c \in 1..Len(kept) |-> DictGet(RowDict(headers, row), kept[c])]

\* the incoming row sent as it came in, not laid out under the destination headers
IncomingRow(headers, row, existing_headers) == row

\* [row_dict.get(header, '') for header in existing_headers]
RemappedRow(headers, row, existing_headers) ==
    [c \in 1..Len(existing_headers) |-> DictGet(RowDict(headers, row), existing_headers[c])]

RECURSIVE Positions(_, _)
\* the positions i.. of a sequence of booleans that hold TRUE, in order
Positions(flags, i) ==
    IF i > Len(flags) THEN <<>>
    ELSE (IF flags[i] THEN <<i>> ELSE <<>>) \o Positions(flags, i + 1)

\* the ranged updates of the matched rows, in incoming order
Updates(headers, rows, row_numbers, existing_headers, strategy, unrecognized_headers) ==
    LET matched == Positions([i \in 1..Len(rows) |-> row_numbers[i] # 0], 1)
    IN  [k \in 1..Len(matched) |->
            [row_number |-> row_numbers[matched[k]],
             values     |-> UpdatedRow(headers, rows[matched[k]], existing_headers,
                                       strategy, unrecognized_headers)]]

\* new_rows, remapped to the destination header order
RemappedRows(headers, rows, row_numbers, existing_headers) ==
    LET unmatched == Positions([i \in 1..Len(rows) |-> row_numbers[i] = 0], 1)
    IN  [k \in 1..Len(unmatched) |-> RemappedRow(headers, rows[unmatched[k]], existing_headers)]

\* existing_headers = existing_data[0]; existing_rows = existing_data[1:]
ExistingTable(c) == [c EXCEPT !.existing_headers = c.data[1], !.existing_rows = Tail(c.data)]

\* the identifier check, existing_map and the classification of the incoming rows
\* (new_rows is collected by _upsert_rows only; _update_rows reads no remapped row)
Classify(c, headers, rows, identifier_fields, strategy) ==
    IF c.err # "" THEN c
    ELSE IF MissingIdentifier(identifier_fields, c.existing_headers) # 0
    THEN Raise(c, "IdentifierFieldNotFound")
    ELSE IF \E k \in 1..Len(identifier_fields) : identifier_fields[k] \notin Range(c.existing_headers)
    THEN \* existing_headers.index(field) raises for a value the list does not hold
         Raise(c, "ValueError")
    ELSE LET existing_map == ExistingMap(c.existing_rows,
                                         IdentifierIndices(identifier_fields, c.existing_headers))
             row_numbers == RowNumbers(headers, rows, identifier_fields, existing_map)
         IN  [c EXCEPT !.updates = Updates(headers, rows, row_numbers, c.existing_headers,
                                           strategy, c.unrecognized_headers),
                       !.remapped_rows = RemappedRows(headers, rows, row_numbers, c.existing_headers)]

-----------------------------------------------------------------------------
(* PostToGoogleSpreadsheet: UPDATE and UPSERT *)

G_add_new_columns(c, existing_headers, new_headers) ==
    LET start_col == Len(existing_headers)
        start_col_letter == _column_letter(start_col + 1)
    IN  Returned(Stored(Request(c, "addcols", 1, _column_number(start_col_letter), <<new_headers>>, TRUE),
                        1, _column_number(start_col_letter), <<new_headers>>),
                 c.count)

G_refetched(c) == IF c.err # "" THEN c ELSE ExistingTable(c)

\* the header-mismatch block of _update_rows and _upsert_rows
G_reconcile(c, headers, strategy) ==
    IF c.err # "" THEN c
    ELSE LET existing_headers == c.data[1]
             unrecognized_headers == Unrecognized(headers, existing_headers)
             t == [ExistingTable(c) EXCEPT !.unrecognized_headers = unrecognized_headers]
         IN  IF unrecognized_headers = {} THEN t
             ELSE IF strategy = "FAIL" THEN Raise(t, "SchemaMismatch")
             ELSE IF strategy = "IGNORE_FIELDS" THEN t
             ELSE G_refetched(G_get_sheet_data(
                      G_add_new_columns(t, existing_headers, Sorted(unrecognized_headers))))

RECURSIVE ApplyUpdates(_, _, _)
\* the worksheet after the ranged updates k.. are stored, each from column A of its row
ApplyUpdates(s, updates, k) ==
    IF k > Len(updates) THEN s
    ELSE ApplyUpdates(PutValues(s, updates[k].row_number, 1, <<updates[k].values>>), updates, k + 1)

\* _batch_update: one request carrying every ranged update; logged as one entry per
\* range, all with the answer of the request
G_batch_update(c, updates) ==
    LET ok == Answer(c.calls, c.fault)
        entries == [k \in 1..Len(updates) |->
                        Call("patch", ok, updates[k].row_number, 1, <<updates[k].values>>)]
    IN  IF ok THEN [c EXCEPT !.sheet = ApplyUpdates(@, updates, 1), !.calls = @ \o entries, !.ok = TRUE]
        ELSE Raise([c EXCEPT !.calls = @ \o entries, !.ok = FALSE], "Backend")

\* `if updates: self._batch_update(...)`, with rows_updated = len(updates)
G_patch_rows(c) ==
    IF c.err # "" THEN c
    ELSE IF c.updates = <<>> THEN c
    ELSE G_batch_update([c EXCEPT !.rows_updated = Len(c.updates)], c.updates)

G_updated(c) == IF c.err # "" THEN c ELSE [c EXCEPT !.count = c.rows_updated]

G_update_fetched(c) == IF c.err = "" /\ c.data = <<>> THEN Raise(c, "EmptyDestination") ELSE c

G_update_rows(c, headers, rows, identifier_fields, strategy) ==
    G_updated(G_patch_rows(Classify(G_reconcile(G_update_fetched(G_get_sheet_data(c)), headers, strategy),
                                    headers, rows, identifier_fields, strategy)))

\* `if new_rows: self._append_rows(existing_headers, remapped_rows, False)`
G_insert_rows(c) ==
    IF c.err # "" THEN c
    ELSE IF c.remapped_rows = <<>> THEN c
    ELSE G_append_rows([c EXCEPT !.rows_inserted = Len(c.remapped_rows)],
                       c.existing_headers, c.remapped_rows, FALSE)

\* return rows_updated + rows_inserted
Upserted(c) == IF c.err # "" THEN c ELSE [c EXCEPT !.count = c.rows_updated + c.rows_inserted]

G_upsert_fetched(c, headers, rows, identifier_fields, include_header, strategy) ==
    IF c.err # "" THEN c
    ELSE IF c.data = <<>>
    THEN \* Sheet is empty, treat as REPLACE
         G_replace_all(c, headers, rows, <<"A", "1">>, include_header)
    ELSE Upserted(G_insert_rows(G_patch_rows(
             Classify(G_reconcile(c, headers, strategy), headers, rows, identifier_fields, strategy))))

G_upsert_rows(c, headers, rows, identifier_fields, include_header, strategy) ==
    G_upsert_fetched(G_get_sheet_data(c), headers, rows, identifier_fields, include_header, strategy)

-----------------------------------------------------------------------------
(* PostToMicrosoftSpreadsheet: UPDATE and UPSERT *)

M_add_new_columns(c, existing_headers, new_headers) ==
    LET start_col == Len(existing_headers) + 1
        start_col_letter == _column_letter(start_col)
        end_col_letter == _column_letter(start_col + Len(new_headers) - 1)
        range_address == Address(start_col_letter, 1, end_col_letter, 1)
    IN  Returned(M_patch_range(c, "addcols", range_address, <<new_headers>>), c.count)

M_refetched(c) == IF c.err # "" THEN c ELSE ExistingTable(c)

\* the header-mismatch block of _update_rows and _upsert_rows
M_reconcile(c, headers, strategy) ==
    IF c.err # "" THEN c
    ELSE LET existing_headers == c.data[1]
             unrecognized_headers == Unrecognized(headers, existing_headers)
             t == [ExistingTable(c) EXCEPT !.unrecognized_headers = unrecognized_headers]
         IN  IF unrecognized_headers = {} THEN t
             ELSE IF strategy = "FAIL" THEN Raise(t, "SchemaMismatch")
             ELSE IF strategy = "IGNORE_FIELDS" THEN t
             ELSE M_refetched(M_get_worksheet_range(
                      M_add_new_columns(t, existing_headers, Sorted(unrecognized_headers))))

\* a loop body that counts the row whatever the PATCH was answered
M_row_counted(c) == [c EXCEPT !.rows_updated = @ + 1]

\* rows_updated += 1 when the PATCH was answered 200; the loop goes on when it was not
M_row_patched(c) == IF c.ok THEN [c EXCEPT !.rows_updated = @ + 1] ELSE c

RECURSIVE M_patch_rows(_, _)
\* the loop over the matched rows k..: one range PATCH each
M_patch_rows(c, k) ==
    IF c.err # "" THEN c
    ELSE IF k > Len(c.updates) THEN c
    ELSE M_patch_rows(
             M_row_patched(M_patch_range(c, "patch",
                 Address(<<"A">>, c.updates[k].row_number,
                         _column_letter(Len(c.existing_headers)), c.updates[k].row_number),
                 <<c.updates[k].values>>)),
             k + 1)

M_updated(c) == IF c.err # "" THEN c ELSE [c EXCEPT !.count = c.rows_updated]

M_update_fetched(c) == IF c.err = "" /\ c.data = <<>> THEN Raise(c, "EmptyDestination") ELSE c

M_update_rows(c, headers, rows, identifier_fields, strategy) ==
    M_updated(M_patch_rows(Classify(M_reconcile(M_update_fetched(M_get_worksheet_range(c)), headers, strategy),
                                    headers, rows, identifier_fields, strategy), 1))

\* `if new_rows: self._append_rows(existing_headers, remapped_rows, False)`
M_insert_rows(c) ==
    IF c.err # "" THEN c
    ELSE IF c.remapped_rows = <<>> THEN c
    ELSE M_append_rows([c EXCEPT !.rows_inserted = Len(c.remapped_rows)],
                       c.existing_headers, c.remapped_rows, FALSE)

M_upsert_fetched(c, headers, rows, identifier_fields, include_header, strategy) ==
    IF c.err # "" THEN c
    ELSE IF c.data = <<>>
    THEN \* Worksheet is empty, treat as REPLACE
         M_replace_all(c, headers, rows, <<"A", "1">>, include_header)
    ELSE Upserted(M_insert_rows(M_patch_rows(
             Classify(M_reconcile(c, headers, strategy), headers, rows, identifier_fields, strategy), 1)))

M_upsert_rows(c, headers, rows, identifier_fields, include_header, strategy) ==
    M_upsert_fetched(M_get_worksheet_range(c), headers, rows, identifier_fields, include_header, strategy)

-----------------------------------------------------------------------------
(* transform(): one invocation *)

\* what transform() returns, with the tallies its log lines report
Outcome(s, cs, relationship, rows_written, error, rows_updated, rows_inserted) ==
    [sheet |-> s, calls |-> cs,
     result |-> [relationship |-> relationship, rows_written |-> rows_written, error |-> error,
                 rows_updated |-> rows_updated, rows_inserted |-> rows_inserted]]

\* the except clause and the final return of transform()
Finish(c) ==
    IF c.err # "" THEN Outcome(c.sheet, c.calls, "failure", -1, c.err, 0, 0)
    ELSE Outcome(c.sheet, c.calls, "success", c.count, "", c.rows_updated, c.rows_inserted)

\* the write-mode dispatch of PostToGoogleSpreadsheet.transform
G_dispatch(c, i) ==
    CASE i.write_mode = "APPEND" -> G_append_rows(c, i.headers, i.rows, i.include_header)
      [] i.write_mode = "REPLACE" -> G_replace_all(c, i.headers, i.rows, i.start_cell, i.include_header)
      [] i.write_mode = "UPDATE" -> G_update_rows(c, i.headers, i.rows, i.identifier_fields, i.strategy)
      [] i.write_mode = "UPSERT" -> G_upsert_rows(c, i.headers, i.rows, i.identifier_fields,
                                                  i.include_header, i.strategy)

\* the write-mode dispatch of PostToMicrosoftSpreadsheet.transform
M_dispatch(c, i) ==
    CASE i.write_mode = "APPEND" -> M_append_rows(c, i.headers, i.rows, i.include_header)
      [] i.write_mode = "REPLACE" -> M_replace_all(c, i.headers, i.rows, i.start_cell, i.include_header)
      [] i.write_mode = "UPDATE" -> M_update_rows(c, i.headers, i.rows, i.identifier_fields, i.strategy)
      [] i.write_mode = "UPSERT" -> M_upsert_rows(c, i.headers, i.rows, i.identifier_fields,
                                                  i.include_header, i.strategy)

\* a test that takes a header row without data rows as data to write
NoHeaders(headers, rows) == headers = <<>>

\* `if not headers or not rows`: nothing to write (None and [] alike)
NoData(headers, rows) == headers = <<>> \/ rows = <<>>

G_transform(s, i) ==
    IF i.write_mode \in {"UPDATE", "UPSERT"} /\ i.identifier_fields = <<>>
    THEN Outcome(s, <<>>, "failure", -1, "IdentifierFieldsRequired", 0, 0)
    ELSE IF NoData(i.headers, i.rows)
    THEN Outcome(s, <<>>, "success", 0, "", 0, 0)
    ELSE Finish(G_dispatch(Ctx(s, i.fault), i))

\* the session is closed on the path that raised nothing
M_closed(c) == IF c.err # "" THEN c ELSE M_close_session(c)

M_transform(s, i) ==
    IF i.write_mode \in {"UPDATE", "UPSERT"} /\ i.identifier_fields = <<>>
    THEN Outcome(s, <<>>, "failure", -1, "IdentifierFieldsRequired", 0, 0)
    ELSE IF NoData(i.headers, i.rows)
    THEN Outcome(s, <<>>, "success", 0, "", 0, 0)
    ELSE Finish(M_closed(M_dispatch(M_create_session(Ctx(s, i.fault)), i)))

transform(b, s, i) == IF b = "google" THEN G_transform(s, i) ELSE M_transform(s, i)

-----------------------------------------------------------------------------
(* The state machine *)

Backends == {"google", "microsoft"}

IncomingHeaders == { <<"id", "name">>, <<"name", "id">>, <<"id", "x">> }

\* the values a payload may carry under a header
CellValues(h) == IF h = "id" THEN {"1", "2"} ELSE IF h = "x" THEN {"y"} ELSE {"b"}

RowsOf(headers) ==
    {row \in [1..Len(headers) -> {"1", "2", "b", "y"}] : \A c \in 1..Len(headers) : row[c] \in CellValues(headers[c])}

\* the parsed payloads: nothing at all (None, None), a header row without data
\* rows, a header row and up to MaxRows data rows
Payloads == {[headers |-> <<>>, rows |-> <<>>]} \cup
            {[headers |-> h, rows |-> rs] : h \in IncomingHeaders, rs \in {<<>>}} \cup
            UNION {{[headers |-> h, rows |-> rs] : rs \in SeqsOf(RowsOf(h), 1, MaxRows)} : h \in IncomingHeaders}

\* the Start Cell property: A1, B2, and the texts A1x and A that name no cell
StartCells == { <<"A", "1">>, <<"B", "2">>, <<"A", "1", "x">>, <<"A">> }

Strategies == {"FAIL", "IGNORE_FIELDS", "ADD_COLUMNS"}

\* the Identifier Fields property, split at the commas; <<>> when it is not set
IdentifierFieldLists == { <<>>, <<"id">>, <<"x">>, <<"name">> }

\* the property values a write mode does not read are left at their defaults
Invocation(mode, p, include_header, start_cell, identifier_fields, strategy, fault) ==
    [write_mode |-> mode, headers |-> p.headers, rows |-> p.rows, include_header |-> include_header,
     start_cell |-> start_cell, identifier_fields |-> identifier_fields, strategy |-> strategy,
     fault |-> fault]

NoInvocation == Invocation("", [headers |-> <<>>, rows |-> <<>>], TRUE, <<"A", "1">>, <<>>, "FAIL", 0)

NoResult == [relationship |-> "", rows_written |-> 0, error |-> "", rows_updated |-> 0, rows_inserted |-> 0]

\* a table a user keeps in the worksheet: a header row and one data row
UserTable == << <<"id", "name">>, <<"1", "a">> >>

\* a table whose names differ from the name "b" of the payloads in letter case or
\* in a leading blank only, and whose last row has no name
CaseTable == << <<"id", "name">>, <<"1", "B">>, <<"2", " b">>, <<"3">> >>

\* a table with two rows of the same id
DuplicateTable == << <<"id", "name">>, <<"1", "a">>, <<"1", "c">> >>

\* earlier invocations of the processor on a blank worksheet: REPLACE at the
\* start cells B1 and B2, and APPEND, each of one row with its header row
EarlierInvocations ==
    LET p == [headers |-> <<"id", "name">>, rows |-> << <<"1", "a">> >>]
    IN  { Invocation("REPLACE", p, TRUE, <<"B", "1">>, <<>>, "FAIL", 0),
          Invocation("REPLACE", p, TRUE, <<"B", "2">>, <<>>, "FAIL", 0),
          Invocation("APPEND", p, TRUE, <<"A", "1">>, <<>>, "FAIL", 0) }

\* the worksheets an invocation may find: a blank one, the user's table, and what
\* an earlier invocation of the same processor left
Destinations(b) == {<<>>, UserTable, CaseTable, DuplicateTable} \cup {transform(b, <<>>, i).sheet : i \in EarlierInvocations}

\* the values of the variables of the parts that are not looked at
SpreadsheetOff ==
    /\ backend = "google" /\ sheet = <<>> /\ pc = "off" /\ inv = NoInvocation
    /\ prev = <<>> /\ result = NoResult /\ calls = <<>>

MergeOff == merge_pc = "off" /\ input = <<>> /\ patch = <<>> /\ output = <<>> /\ returned = ""

MethodOff == call_pc = "off" /\ argument = 0 /\ outcome = <<>>

StateOff == store = <<>> /\ workers = <<>> /\ replace_returns = "off"

Init ==
    /\ backend \in Backends
    /\ sheet \in Destinations(backend)
    /\ pc = "idle"
    /\ inv = NoInvocation
    /\ prev = <<>>
    /\ result = NoResult
    /\ calls = <<>>
    /\ MergeOff
    /\ MethodOff
    /\ StateOff

\* the faults an invocation can meet: none, or an error answer to one of its requests
Faults(b, s, i) == 0..Len(transform(b, s, [i EXCEPT !.fault = 0]).calls)

\* the fault is one the invocation met: the request it names was issued and was refused
Met(i, out) == IF i.fault = 0 THEN TRUE ELSE i.fault \in 1..Len(out.calls) /\ ~out.calls[i.fault].ok

\* transform() has returned `out`
Return(i, out) ==
    /\ Met(i, out)
    /\ pc' = "done"
    /\ inv' = i
    /\ prev' = sheet
    /\ sheet' = out.sheet
    /\ result' = out.result
    /\ calls' = out.calls
    /\ UNCHANGED backend
    /\ UNCHANGED <<mergeVars, methodVars, stateVars>>

\* one invocation of transform() with configuration and payload i
Invoke(i) == Return(i, transform(backend, sheet, i))

Append_ ==
    /\ pc = "idle"
    /\ \E p \in Payloads, h \in BOOLEAN :
        \E f \in Faults(backend, sheet, Invocation("APPEND", p, h, <<"A", "1">>, <<>>, "FAIL", 0)) :
            Invoke(Invocation("APPEND", p, h, <<"A", "1">>, <<>>, "FAIL", f))

Replace ==
    /\ pc = "idle"
    /\ \E p \in Payloads, h \in BOOLEAN, c \in StartCells :
        \E f \in Faults(backend, sheet, Invocation("REPLACE", p, h, c, <<>>, "FAIL", 0)) :
            Invoke(Invocation("REPLACE", p, h, c, <<>>, "FAIL", f))

Update ==
    /\ pc = "idle"
    /\ \E p \in Payloads, ids \in IdentifierFieldLists, st \in Strategies :
        \E f \in Faults(backend, sheet, Invocation("UPDATE", p, TRUE, <<"A", "1">>, ids, st, 0)) :
            Invoke(Invocation("UPDATE", p, TRUE, <<"A", "1">>, ids, st, f))

Upsert ==
    /\ pc = "idle"
    /\ \E p \in Payloads, h \in BOOLEAN, ids \in IdentifierFieldLists, st \in Strategies :
        \E f \in Faults(backend, sheet, Invocation("UPSERT", p, h, <<"A", "1">>, ids, st, 0)) :
            Invoke(Invocation("UPSERT", p, h, <<"A", "1">>, ids, st, f))

\* the host takes the result; nothing of the invocation is kept
Deliver ==
    /\ pc = "done"
    /\ pc' = "delivered"
    /\ inv' = NoInvocation
    /\ prev' = <<>>
    /\ result' = NoResult
    /\ calls' = <<>>
    /\ UNCHANGED <<backend, sheet>>
    /\ UNCHANGED <<mergeVars, methodVars, stateVars>>

Next == Append_ \/ Replace \/ Update \/ Upsert \/ Deliver

Spec == Init /\ [][Next]_vars

-----------------------------------------------------------------------------
(* What the properties below speak of *)

\* transform() has returned from an invocation in the given write mode
Ran(mode) == pc = "done" /\ inv.write_mode = mode

Succeeded == result.relationship = "success"

\* the positions in the request log of the requests of one kind
CallsOf(op) == {k \in DOMAIN calls : calls[k].op = op}

\* [headers] followed by rows when include_header_row is true, rows when it is false
Block(i) == (IF i.include_header THEN <<i.headers>> ELSE <<>>) \o i.rows

\* a fetch of the destination, as the processor of the backend does it
Fetch(b, s) == IF b = "google" THEN GoogleValues(s) ELSE UsedRangeValues(s)

\* the worksheet that holds the block from the start cell on and nothing else
Exactly(start_cell, block) ==
    PutValues(<<>>, StartCellMatch(start_cell).row, _column_number(StartCellMatch(start_cell).col), block)

-----------------------------------------------------------------------------
(* REPLACE *)

\* C1: in REPLACE mode the clear is issued before the write, and after a successful
\* REPLACE the destination holds, from the start cell on, exactly [headers] + rows
\* (rows alone without include_header_row), no cell of the prior content remains,
\* and the returned count is len(rows)
C1_ReplaceExact ==
    (Ran("REPLACE") /\ Succeeded /\ CallsOf("write") # {}) =>
        /\ \E k \in CallsOf("clear") : \A j \in CallsOf("write") : k < j
        /\ sheet = Exactly(inv.start_cell, Block(inv))
        /\ result.rows_written = Len(inv.rows)

\* a REPLACE that returned success although its clear was refused, with cells of
\* the prior content still in the worksheet
C1_RefusedClear ==
    /\ Ran("REPLACE") /\ Succeeded
    /\ \E k \in CallsOf("clear") : ~calls[k].ok
    /\ sheet # Exactly(inv.start_cell, Block(inv))
    /\ result.rows_written = Len(inv.rows)

\* a second application leaves the worksheet as the first one left it
SameAgain(out) == out.result.relationship = "success" => out.sheet = sheet

\* C2: REPLACE is idempotent: for every destination and every (headers, rows,
\* start_cell, include_header_row), applying REPLACE a second time with the same
\* input leaves the content the first application left
C2_ReplaceIdempotent ==
    (Ran("REPLACE") /\ Succeeded) =>
        \A f \in 0..Len(calls) : SameAgain(transform(backend, sheet, [inv EXCEPT !.fault = f]))

\* a second successful application of the same REPLACE changes the worksheet
C2_SecondDiffers ==
    /\ Ran("REPLACE") /\ Succeeded
    /\ ~SameAgain(transform(backend, sheet, [inv EXCEPT !.fault = 0]))

-----------------------------------------------------------------------------
(* APPEND *)

\* C3: for an initially empty destination, APPEND of (headers, rows) followed by a
\* fetch returns [headers] + rows with include_header_row, and rows without it
C3_AppendThenFetch ==
    (Ran("APPEND") /\ Succeeded /\ prev = <<>> /\ CallsOf("append") # {}) =>
        Fetch(backend, sheet) = Block(inv)

\* an APPEND with include_header_row on a blank worksheet after which the fetch
\* returns the rows without the header row
C3_HeaderMissing ==
    /\ Ran("APPEND") /\ Succeeded /\ prev = <<>> /\ inv.include_header
    /\ CallsOf("append") # {}
    /\ Fetch(backend, sheet) = inv.rows

\* exactly one row, every cell of it the empty string
OneBlankRow(data) == Len(data) = 1 /\ \A c \in 1..Len(data[1]) : data[1][c] = ""

\* C4: in APPEND mode a destination whose fetched data is one all-blank row is
\* treated as empty: the header row is sent ahead of the data rows when
\* include_header_row is true, and the written block starts at row 1
C4_BlankRowIsEmpty ==
    (Ran("APPEND") /\ OneBlankRow(Fetch(backend, prev))) =>
        \A k \in CallsOf("append") : calls[k].values = Block(inv) /\ calls[k].row = 1

\* an APPEND that fetched one all-blank row and wrote from row 2 on, without the
\* header row it was configured to write
C4_TreatedAsData ==
    /\ Ran("APPEND") /\ Succeeded /\ OneBlankRow(Fetch(backend, prev)) /\ inv.include_header
    /\ \E k \in CallsOf("append") : calls[k].values = inv.rows /\ calls[k].row = 2

\* the cells of a row from its first non-empty one on
Unpadded(row) ==
    IF \E c \in 1..Len(row) : row[c] # ""
    THEN SubSeq(row, CHOOSE c \in 1..Len(row) : row[c] # "" /\ \A d \in 1..(c - 1) : row[d] = "",
                Len(row))
    ELSE <<>>

\* C5: in APPEND mode on a non-empty destination of N rows the incoming rows are
\* written at rows N+1 .. N+len(rows), no header row is written, no existing row
\* is modified, and the returned count is len(rows)
C5_AppendBelow ==
    (Ran("APPEND") /\ Succeeded /\ prev # <<>> /\ CallsOf("append") # {}) =>
        /\ Len(sheet) = Len(prev) + Len(inv.rows)
        /\ \A r \in 1..Len(prev) : sheet[r] = prev[r]
        /\ \A k \in 1..Len(inv.rows) : Unpadded(sheet[Len(prev) + k]) = inv.rows[k]
        /\ result.rows_written = Len(inv.rows)

\* a successful APPEND on a worksheet holding a table from B2 on, after which the
\* last row of the table no longer holds what it held and no row was added
C5_ExistingRowOverwritten ==
    /\ Ran("APPEND") /\ Succeeded /\ CallsOf("append") # {}
    /\ prev = Exactly(<<"B", "2">>, UserTable)
    /\ Len(sheet) = Len(prev)
    /\ sheet[Len(prev)] # prev[Len(prev)]

-----------------------------------------------------------------------------
(* UPDATE and UPSERT *)

\* the rows sent by the append requests of the invocation
Appended == UNION {{<<k, j>> : j \in 1..Len(calls[k].values)} : k \in CallsOf("append")}

\* the ranged patches that were answered with success
Patched == {k \in CallsOf("patch") : calls[k].ok}

ExistingIdentity(data, r, identifier_fields) ==
    [k \in 1..Len(identifier_fields) |->
        IF identifier_fields[k] \in Range(data[1])
        THEN IF IndexOf(data[1], identifier_fields[k]) <= Len(data[r])
             THEN data[r][IndexOf(data[1], identifier_fields[k])] ELSE ""
        ELSE ""]

\* the patch at position k of the log is for an incoming row whose identity value
\* is that of the existing row it addresses
PatchOfMatchedRow(k, data) ==
    /\ calls[k].row \in 2..Len(data)
    /\ \E j \in 1..Len(inv.rows) :
          IncomingKey(inv.headers, inv.rows[j], inv.identifier_fields)
              = ExistingIdentity(data, calls[k].row, inv.identifier_fields)

\* C7: in UPDATE mode an incoming row whose identity value matches no existing row
\* is dropped: it is neither patched nor appended, the row count of the
\* destination is unchanged, and the returned count is the number of matched rows
\* patched
C7_UpdateDropsUnmatched ==
    (Ran("UPDATE") /\ Succeeded /\ inv.rows # <<>>) =>
        /\ CallsOf("append") = {} /\ CallsOf("write") = {}
        /\ \A k \in CallsOf("patch") : PatchOfMatchedRow(k, Fetch(backend, prev))
        /\ Len(sheet) = Len(prev)
        /\ result.rows_written = Cardinality(Patched)

\* a successful UPDATE of rows that match nothing, after which the worksheet has
\* one row more than before
C7_RowAdded ==
    /\ Ran("UPDATE") /\ Succeeded /\ inv.rows # <<>>
    /\ CallsOf("patch") = {}
    /\ Len(sheet) = Len(prev) + 1

\* the cells of a worksheet row are the values of the incoming row, each under the
\* header of its name, and the empty string everywhere else
UnderHeaders(header_row, sheet_row, row) ==
    \A c \in 1..Max(Len(header_row), Len(sheet_row)) :
        (IF c <= Len(sheet_row) THEN sheet_row[c] ELSE "")
            = IF c <= Len(header_row) /\ header_row[c] # ""
              THEN DictGet(RowDict(inv.headers, row), header_row[c])
              ELSE ""

\* C8: in UPSERT mode on a non-empty destination (header row in row 1) each
\* unmatched incoming row is appended after the last existing row, its values in
\* destination column order (under the header of the same name, the empty string
\* under a header the input lacks), and the append writes no header row
C8_UpsertAppendsRemapped ==
    (Ran("UPSERT") /\ Succeeded /\ prev # <<>> /\ prev[1] # <<>> /\ Appended # {}) =>
        /\ Cardinality(Appended) = Len(inv.rows) - Cardinality(CallsOf("patch"))
        /\ Len(sheet) = Len(prev) + Cardinality(Appended)
        /\ \A r \in (Len(prev) + 1)..Len(sheet) :
              \E j \in 1..Len(inv.rows) : UnderHeaders(sheet[1], sheet[r], inv.rows[j])

\* a successful UPSERT through the Microsoft processor after which an appended
\* row is not laid out under the headers of row 1
C8_NotUnderHeaders ==
    /\ Ran("UPSERT") /\ Succeeded /\ prev # <<>> /\ prev[1] # <<>> /\ Appended # {}
    /\ backend = "microsoft"
    /\ Len(sheet) = Len(prev) + Cardinality(Appended)
    /\ \E r \in (Len(prev) + 1)..Len(sheet) :
          \A j \in 1..Len(inv.rows) : ~UnderHeaders(sheet[1], sheet[r], inv.rows[j])

\* two invocations leave the same content and return the same count
Equivalent(a, b) == a.sheet = b.sheet /\ a.result.rows_written = b.result.rows_written

\* C9: UPSERT against an empty destination degrades to REPLACE: for every input
\* and configuration, a start cell other than A1 included, it leaves the content
\* and returns the count that REPLACE does with the same input and configuration
C9_UpsertOnEmptyIsReplace ==
    (Ran("UPSERT") /\ prev = <<>> /\ inv.fault = 0 /\ inv.rows # <<>>) =>
        \A c \in StartCells :
            Equivalent(transform(backend, prev, [inv EXCEPT !.start_cell = c]),
                       transform(backend, prev, [inv EXCEPT !.start_cell = c, !.write_mode = "REPLACE"]))

\* a successful UPSERT on a blank worksheet that wrote its block from A1 on, where
\* REPLACE with start cell B2 writes it from B2 on
C9_StartCellIgnored ==
    /\ Ran("UPSERT") /\ Succeeded /\ prev = <<>> /\ inv.fault = 0 /\ inv.rows # <<>>
    /\ sheet = Exactly(<<"A", "1">>, Block(inv))
    /\ sheet = transform(backend, prev, [inv EXCEPT !.start_cell = <<"B", "2">>]).sheet
    /\ sheet # transform(backend, prev, [inv EXCEPT !.start_cell = <<"B", "2">>,
                                                    !.write_mode = "REPLACE"]).sheet

\* C10: UPDATE against an empty destination fails with the empty-destination
\* error, and no patch, append, clear, write or column addition is issued
C10_UpdateOnEmptyFails ==
    (Ran("UPDATE") /\ prev = <<>> /\ inv.fault = 0 /\ inv.rows # <<>>) =>
        /\ result.relationship = "failure"
        /\ result.error = "EmptyDestination"
        /\ \A k \in DOMAIN calls : calls[k].op \notin {"patch", "append", "clear", "write", "addcols"}

\* a successful UPDATE on a blank worksheet that added columns to it
C10_ColumnsAddedToBlank ==
    /\ Ran("UPDATE") /\ Succeeded /\ prev = <<>> /\ inv.rows # <<>>
    /\ CallsOf("addcols") # {}
    /\ sheet # <<>>

-----------------------------------------------------------------------------
(* UPDATE and UPSERT: header mismatch and identifier fields *)

Matching == pc = "done" /\ inv.write_mode \in {"UPDATE", "UPSERT"}

\* the destination was fetched: the fetch of the invocation was answered
Fetched == \E k \in CallsOf("fetch") : calls[k].ok

\* the header row of the destination as the invocation found it
DestinationHeaders == Fetch(backend, prev)[1]

\* the requests of the invocation that change the destination
Writes == CallsOf("patch") \cup CallsOf("append") \cup CallsOf("write") \cup CallsOf("addcols")
              \cup CallsOf("clear")

\* C11: under FAIL in UPDATE/UPSERT on a non-empty destination, an incoming header
\* absent from the destination headers fails the invocation with the schema
\* mismatch error, however many rows carry a value for it, and nothing is patched
\* or appended and no column is added
C11_FailIsStrict ==
    (/\ Matching /\ inv.strategy = "FAIL" /\ prev # <<>> /\ Fetched
     /\ \E h \in Range(inv.headers) : h \notin Range(DestinationHeaders)) =>
        /\ result.relationship = "failure"
        /\ result.error = "SchemaMismatch"
        /\ Writes = {}
        /\ sheet = prev

\* an UPSERT under FAIL of two rows with the column x against the user's table,
\* which has no column x: schema mismatch, the worksheet as it was
C11_MismatchRefused ==
    /\ Ran("UPSERT") /\ inv.strategy = "FAIL" /\ prev = UserTable /\ Fetched
    /\ inv.headers = <<"id", "x">> /\ Len(inv.rows) = 2
    /\ result.error = "SchemaMismatch"
    /\ sheet = prev

\* the headers after reconciliation: ADD_COLUMNS adds the incoming headers the
\* destination lacks, the other strategies leave the header row as it is
ReconciledHeaders ==
    Range(DestinationHeaders) \cup (IF inv.strategy = "ADD_COLUMNS" THEN Range(inv.headers) ELSE {})

\* the header comparison of the invocation raises the schema mismatch error
Mismatch == inv.strategy = "FAIL" /\ \E h \in Range(inv.headers) : h \notin Range(DestinationHeaders)

\* C12: in UPDATE/UPSERT an identifier field absent from the (possibly reconciled)
\* destination headers fails the invocation at the identifier check, before any
\* row is matched: no row of the destination has been patched or appended
C12_MissingIdentifierAborts ==
    (/\ Matching /\ prev # <<>> /\ Fetched
     /\ \E k \in 1..Len(inv.identifier_fields) : inv.identifier_fields[k] \notin ReconciledHeaders) =>
        /\ result.relationship = "failure"
        /\ (inv.fault = 0 /\ ~Mismatch) => result.error = "IdentifierFieldNotFound"
        /\ CallsOf("patch") = {} /\ CallsOf("append") = {} /\ CallsOf("write") = {}
        /\ Len(sheet) = Len(prev)
        /\ \A r \in 2..Len(prev) : sheet[r] = prev[r]

\* an UPDATE under IGNORE_FIELDS with the identifier field x against the user's
\* table, which has no column x: refused at the identifier check, nothing written
C12_IdentifierRefused ==
    /\ Ran("UPDATE") /\ inv.strategy = "IGNORE_FIELDS" /\ prev = UserTable /\ Fetched
    /\ inv.identifier_fields = <<"x">> /\ inv.headers = <<"id", "x">>
    /\ result.error = "IdentifierFieldNotFound"
    /\ calls[Len(calls)].op = "fetch"
    /\ sheet = prev

-----------------------------------------------------------------------------
(* UPDATE and UPSERT: row matching *)

\* the incoming rows whose identity tuple is that of no existing row
Unmatched(data) ==
    {j \in 1..Len(inv.rows) :
        \A r \in 2..Len(data) :
            IncomingKey(inv.headers, inv.rows[j], inv.identifier_fields)
                # ExistingIdentity(data, r, inv.identifier_fields)}

-----------------------------------------------------------------------------
(* UPDATE and UPSERT: ADD_COLUMNS and IGNORE_FIELDS *)

\* the incoming headers the header row of the destination lacks, sorted
NewHeaders == Sorted(Range(inv.headers) \ Range(DestinationHeaders))

\* the rows of the worksheet a patch of the invocation was stored in
PatchedRows == {calls[k].row : k \in Patched}

\* C14: under ADD_COLUMNS in UPDATE/UPSERT (header row in row 1) the incoming
\* headers the destination lacks are written, sorted, as header cells to the right
\* of the last existing header; the existing headers keep their positions, a
\* pre-existing row that is not patched stays as it was with the new cells empty,
\* and every row written afterwards carries its values under the headers of row 1
C14_AddColumns ==
    (/\ Matching /\ Succeeded /\ inv.strategy = "ADD_COLUMNS"
     /\ prev # <<>> /\ prev[1] # <<>> /\ inv.rows # <<>> /\ NewHeaders # <<>>) =>
        /\ \A c \in 1..Len(prev[1]) : Cell(sheet, 1, c) = prev[1][c]
        /\ \A k \in 1..Len(NewHeaders) : Cell(sheet, 1, Len(prev[1]) + k) = NewHeaders[k]
        /\ \A r \in 2..Len(prev) :
              IF r \in PatchedRows
              THEN \E j \in 1..Len(inv.rows) : UnderHeaders(sheet[1], sheet[r], inv.rows[j])
              ELSE /\ sheet[r] = prev[r]
                   /\ \A k \in 1..Len(NewHeaders) : Cell(sheet, r, Len(prev[1]) + k) = ""
        /\ \A r \in (Len(prev) + 1)..Len(sheet) :
              \E j \in 1..Len(inv.rows) : UnderHeaders(sheet[1], sheet[r], inv.rows[j])

\* a successful UPDATE under ADD_COLUMNS through the Microsoft processor on the
\* table an earlier REPLACE left at B1, after which the header "name" in C1 has
\* been replaced by the new header "x"
C14_HeaderOverwritten ==
    /\ Ran("UPDATE") /\ Succeeded /\ inv.strategy = "ADD_COLUMNS" /\ backend = "microsoft"
    /\ prev = << <<"", "id", "name">>, <<"", "1", "a">> >>
    /\ NewHeaders = <<"x">>
    /\ sheet[1] = <<"", "id", "x">>

\* the values an incoming row holds under the headers the destination has too
RecognizedValues(row) ==
    {DictGet(RowDict(inv.headers, row), h) : h \in Range(inv.headers) \cap Range(DestinationHeaders)}

\* every cell of the rows a request sent is empty or a value one incoming row
\* holds under a recognized header
OnlyRecognized(k) ==
    \A r \in 1..Len(calls[k].values) :
        \E j \in 1..Len(inv.rows) :
            \A c \in 1..Len(calls[k].values[r]) :
                calls[k].values[r][c] \in {""} \cup RecognizedValues(inv.rows[j])

\* C15: under IGNORE_FIELDS in UPDATE/UPSERT a header mismatch is not fatal: the
\* operation goes on, the header row of the destination stays as it was, and no
\* patch or append carries a value of an unrecognized incoming column
C15_IgnoreFields ==
    (/\ Matching /\ inv.strategy = "IGNORE_FIELDS" /\ prev # <<>> /\ prev[1] # <<>> /\ Fetched
     /\ \E h \in Range(inv.headers) : h \notin Range(DestinationHeaders)) =>
        /\ result.error # "SchemaMismatch"
        /\ (/\ inv.fault = 0
            /\ \A k \in 1..Len(inv.identifier_fields) :
                  inv.identifier_fields[k] \in Range(DestinationHeaders)) => Succeeded
        /\ sheet[1] = prev[1]
        /\ CallsOf("addcols") = {} /\ CallsOf("write") = {}
        /\ \A k \in CallsOf("patch") \cup CallsOf("append") : OnlyRecognized(k)

\* an UPSERT by id under IGNORE_FIELDS of a row with the column x into the user's
\* table: the row is appended with its id and nothing under name, x is not written
C15_ColumnDropped ==
    /\ Ran("UPSERT") /\ Succeeded /\ inv.strategy = "IGNORE_FIELDS" /\ prev = UserTable
    /\ inv.headers = <<"id", "x">> /\ inv.rows = << <<"2", "y">> >>
    /\ \E k \in CallsOf("append") : calls[k].values = << <<"2", "">> >>
    /\ sheet = << <<"id", "name">>, <<"1", "a">>, <<"2">> >>

-----------------------------------------------------------------------------
(* transform(): nothing to write, and the workbook session *)

\* the configuration passed the check made before the content is read
Parsed == Matching => inv.identifier_fields # <<>>

\* C16: when the parsed input has no headers or no data rows, every write mode
\* ends in success with rows_written 0 and sends no request to the backend: no
\* session is opened, nothing is fetched, cleared, patched or appended
C16_NothingToWrite ==
    (pc = "done" /\ Parsed /\ (inv.headers = <<>> \/ inv.rows = <<>>)) =>
        /\ Succeeded
        /\ result.rows_written = 0
        /\ calls = <<>>
        /\ sheet = prev

\* an UPSERT through the Microsoft processor of a header row without data rows
\* into the user's table: success, count 0, no request
C16_HeaderLineOnly ==
    /\ Ran("UPSERT") /\ backend = "microsoft" /\ prev = UserTable
    /\ inv.identifier_fields = <<"id">> /\ inv.headers = <<"id", "name">> /\ inv.rows = <<>>
    /\ Succeeded /\ result.rows_written = 0
    /\ calls = <<>>

\* the workbook sessions the invocation opened
Opened == {k \in CallsOf("createSession") : calls[k].ok}

\* C17: every workbook session an invocation of the Microsoft processor opened
\* is closed before the invocation returns, on the success path and on every
\* failure path
C17_SessionClosed ==
    (pc = "done" /\ backend = "microsoft") =>
        \A k \in Opened : \E j \in CallsOf("closeSession") : j > k

\* an UPDATE under FAIL that ended in the schema mismatch failure with its
\* session opened and no request to close it
C17_SessionLeftOpen ==
    /\ Ran("UPDATE") /\ backend = "microsoft"
    /\ result.relationship = "failure" /\ result.error = "SchemaMismatch"
    /\ Opened # {}
    /\ CallsOf("closeSession") = {}

-----------------------------------------------------------------------------
(* UPDATE and UPSERT: the patches of the matched rows *)

\* C18: in UPDATE and UPSERT, when the patch of one matched row fails at the
\* backend the patches of the other matched rows are still applied, the
\* invocation does not end in failure, and the returned count takes in only the
\* rows whose patch succeeded
C18_BestEffortPatches ==
    (Matching /\ prev # <<>> /\ Patched # CallsOf("patch")) =>
        /\ Succeeded
        /\ Cardinality(CallsOf("patch") \ Patched) = 1
        /\ result.rows_written = Cardinality(Patched) + Cardinality(Appended)

\* an UPDATE through the Google processor of two matched rows whose batch update
\* was refused: neither row is patched and the invocation ends in failure
C18_BatchRefused ==
    /\ Ran("UPDATE") /\ backend = "google" /\ prev # <<>>
    /\ Cardinality(CallsOf("patch")) = 2
    /\ Patched = {}
    /\ result.relationship = "failure"
    /\ sheet = prev

\* the patch at position k of the log carries, for an incoming row whose identity
\* tuple is that of the row it addresses, a cell for every header cell of row 1,
\* each holding the value the incoming row has under that header
PatchUnderHeaders(k) ==
    \E j \in 1..Len(inv.rows) :
        /\ IncomingKey(inv.headers, inv.rows[j], inv.identifier_fields)
              = ExistingIdentity(Fetch(backend, prev), calls[k].row, inv.identifier_fields)
        /\ Len(calls[k].values[1]) = Len(sheet[1])
        /\ \A c \in 1..Len(sheet[1]) :
              calls[k].values[1][c] = DictGet(RowDict(inv.headers, inv.rows[j]), sheet[1][c])

\* C19: a matched incoming row is patched at the row number (index of the
\* matching row among the existing data rows) + 2, over the columns A to the last
\* header column, each value under the destination header of its name whatever the
\* incoming column order; a destination row too short for an identifier column
\* has the empty string in its identity tuple
C19_PatchPlacement ==
    (Matching /\ prev # <<>> /\ prev[1] # <<>>) =>
        \A k \in CallsOf("patch") :
            /\ calls[k].col = 1
            /\ calls[k].row \in 2..Len(Fetch(backend, prev))
            /\ PatchUnderHeaders(k)

\* a successful UPDATE by id through the Microsoft processor of the row [1, b]
\* into the table at B1:C2: the patch went to A2:B2, so that 1 stands in column A
\* under no header and b under the header id
C19_PatchOffHeaders ==
    /\ Ran("UPDATE") /\ Succeeded /\ backend = "microsoft"
    /\ prev = << <<"", "id", "name">>, <<"", "1", "a">> >>
    /\ inv.headers = <<"id", "name">> /\ inv.rows = << <<"1", "b">> >>
    /\ Patched # {}
    /\ sheet = << <<"", "id", "name">>, <<"1", "b", "a">> >>

-----------------------------------------------------------------------------
(* merge_data: the merge of a JSON patch file into a JSON input file, both
   holding an array of records.  A record is a function from its field names to
   its values; every record has the id key. *)

id_key == "id"

\* dict.update(other): the fields of other over those of d
DictUpdate(d, other) ==
    [k \in DOMAIN d \cup DOMAIN other |-> IF k \in DOMAIN other THEN other[k] ELSE d[k]]

\* the last position of the list that holds a record with this key
LastWith(list, key) ==
    CHOOSE i \in 1..Len(list) :
        list[i][id_key] = key /\ \A j \in (i + 1)..Len(list) : list[j][id_key] # key

\* MergeableJSONData.load_file for an array: data_list is the array and json_data
\* maps each id to its entry in it (`at`: the position of the entry, the last one
\* with that id); `loose` are the entries of json_data that are not in data_list
load_file(list) ==
    [data_list |-> list,
     at |-> [key \in {list[i][id_key] : i \in 1..Len(list)} |-> LastWith(list, key)],
     loose |-> <<>>]

RECURSIVE internal_dict_values(_, _)
\* internal_dict.values() from position i on: one entry per id, in the order the
\* ids first occur in the array, each the last record loaded with that id
internal_dict_values(h, i) ==
    IF i > Len(h.data_list) THEN <<>>
    ELSE (IF \E j \in 1..(i - 1) : h.data_list[j][id_key] = h.data_list[i][id_key]
          THEN <<>>
          ELSE <<h.data_list[h.at[h.data_list[i][id_key]]]>>) \o internal_dict_values(h, i + 1)

\* internal_dict[key] = entry, then manage_new: `if self.data_list: self.data_list.append(entry)`
manage_new(h, key, entry) ==
    IF h.data_list # <<>>
    THEN [h EXCEPT !.data_list = Append(@, entry),
                   !.at = [k \in DOMAIN @ \cup {key} |-> IF k = key THEN Len(h.data_list) + 1 ELSE @[k]]]
    ELSE [h EXCEPT !.loose = Append(@, entry)]

\* the body of the loop of MergeableData.merge_data for one record of the patch
merge_entry(h, other_dict) ==
    LET other_key == other_dict[id_key]
    IN  IF other_key \in DOMAIN h.at
        THEN [h EXCEPT !.data_list[h.at[other_key]] = DictUpdate(@, other_dict)]
        ELSE IF \E i \in 1..Len(h.loose) : h.loose[i][id_key] = other_key
        THEN [h EXCEPT !.loose = [i \in 1..Len(@) |->
                                     IF @[i][id_key] = other_key THEN DictUpdate(@[i], other_dict)
                                     ELSE @[i]]]
        ELSE manage_new(h, other_key, other_dict)

RECURSIVE MergeableData_merge_data(_, _, _)
\* MergeableData.merge_data(update_dict) for a MergeableData: the loop over
\* update_dict.internal_dict.values(), from position i on
MergeableData_merge_data(h, values, i) ==
    IF i > Len(values) THEN h
    ELSE MergeableData_merge_data(merge_entry(h, values[i]), values, i + 1)

\* merge_data(id_key, input_path, patch_path, output_path, "json", "json"): the
\* array saved to output_path and the value returned
merge_data(input_list, patch_list) ==
    [output |-> MergeableData_merge_data(load_file(input_list),
                                        internal_dict_values(load_file(patch_list), 1), 1).data_list,
     returned |-> ""]

\* the records an input file may hold: an id, the field c, and the field a or not
InputRecords == {[id |-> i, c |-> 3] : i \in {1, 2}} \cup {[id |-> i, a |-> 0, c |-> 3] : i \in {1, 2}}

\* the records a patch file may hold: an id and any of the fields a and b
PatchRecords ==
    {[id |-> i] : i \in {1, 2}} \cup {[id |-> i, a |-> 1] : i \in {1, 2}} \cup
    {[id |-> i, b |-> 2] : i \in {1, 2}} \cup {[id |-> i, a |-> 1, b |-> 2] : i \in {1, 2}}

MergeInit ==
    /\ merge_pc = "idle"
    /\ input \in SeqsOf(InputRecords, 0, MaxRecords)
    /\ patch \in SeqsOf(PatchRecords, 0, MaxRecords)
    /\ output = <<>>
    /\ returned = ""
    /\ SpreadsheetOff
    /\ MethodOff
    /\ StateOff

\* one run of merge_data on the two files
MergeData ==
    /\ merge_pc = "idle"
    /\ merge_pc' = "done"
    /\ output' = merge_data(input, patch).output
    /\ returned' = merge_data(input, patch).returned
    /\ UNCHANGED <<input, patch>>
    /\ UNCHANGED <<spreadsheetVars, methodVars, stateVars>>

MergeNext == MergeData

MergeSpec == MergeInit /\ [][MergeNext]_vars

\* no two records of the list have the same id
DistinctIds(list) == \A i, j \in 1..Len(list) : i # j => list[i][id_key] # list[j][id_key]

\* the patch records with the id of this record
PatchesOf(record) == {j \in 1..Len(patch) : patch[j][id_key] = record[id_key]}

\* the fields the patch records J carry
FieldsOf(J) == UNION {DOMAIN patch[j] : j \in J}

\* C20: merge-by-key is last-writer-wins per field: for every patch record whose
\* id is present in base, the merged record has the patch value for every field
\* the patch carries and the base value for every field only the base carries;
\* a base record whose id is not in the patch is unchanged
C20_LastWriterWins ==
    (merge_pc = "done" /\ DistinctIds(input)) =>
        /\ Len(output) >= Len(input)
        /\ \A i \in 1..Len(input) :
              /\ DOMAIN output[i] = DOMAIN input[i] \cup FieldsOf(PatchesOf(input[i]))
              /\ \A j \in PatchesOf(input[i]) : \A k \in DOMAIN patch[j] : output[i][k] = patch[j][k]
              /\ \A k \in DOMAIN input[i] \ FieldsOf(PatchesOf(input[i])) : output[i][k] = input[i][k]

\* the patch records {id: 1, a: 1} and {id: 1, b: 2} merged into the base record
\* {id: 1, a: 0, c: 3}: the output record has b = 2 and still a = 0
C20_EarlierPatchLost ==
    /\ merge_pc = "done"
    /\ input = << [id |-> 1, a |-> 0, c |-> 3] >>
    /\ patch = << [id |-> 1, a |-> 1], [id |-> 1, b |-> 2] >>
    /\ output = << [id |-> 1, a |-> 0, b |-> 2, c |-> 3] >>

RECURSIVE NewRecords(_)
\* the patch records from position i on whose id no base record and no earlier
\* patch record has, in patch order
NewRecords(i) ==
    IF i > Len(patch) THEN <<>>
    ELSE (IF \/ \E j \in 1..Len(input) : input[j][id_key] = patch[i][id_key]
             \/ \E j \in 1..(i - 1) : patch[j][id_key] = patch[i][id_key]
          THEN <<>> ELSE <<patch[i]>>) \o NewRecords(i + 1)

\* C21: for a base that is a JSON array, the empty array included, every patch
\* record whose id is absent from base is inserted as a new record and appended
\* to the list: the saved output holds it after all pre-existing records, in
\* patch order
C21_NewRecordsAppended ==
    merge_pc = "done" =>
        /\ Len(output) = Len(input) + Len(NewRecords(1))
        /\ \A k \in 1..Len(NewRecords(1)) :
              output[Len(input) + k][id_key] = NewRecords(1)[k][id_key]

\* the patch record {id: 1, a: 1} merged into the empty array: merge_data
\* returns None and the saved output is the empty array
C21_EmptyBaseStaysEmpty ==
    /\ merge_pc = "done" /\ returned = ""
    /\ input = <<>>
    /\ patch = << [id |-> 1, a |-> 1] >>
    /\ output = <<>>

-----------------------------------------------------------------------------
(* _column_letter and _column_number run on their own *)

ColumnInit ==
    /\ call_pc = "idle"
    /\ argument \in 1..MaxColumn
    /\ outcome = [letter |-> <<>>, number |-> 0]
    /\ SpreadsheetOff
    /\ MergeOff
    /\ StateOff

\* col_letter = self._column_letter(col_num)
ColumnLetter ==
    /\ call_pc = "idle"
    /\ call_pc' = "letter"
    /\ outcome' = [outcome EXCEPT !.letter = _column_letter(argument)]
    /\ UNCHANGED <<argument, spreadsheetVars, mergeVars, stateVars>>

\* self._column_number(col_letter)
ColumnNumber ==
    /\ call_pc = "letter"
    /\ call_pc' = "number"
    /\ outcome' = [outcome EXCEPT !.number = _column_number(outcome.letter)]
    /\ UNCHANGED <<argument, spreadsheetVars, mergeVars, stateVars>>

ColumnNext == ColumnLetter \/ ColumnNumber

ColumnSpec == ColumnInit /\ [][ColumnNext]_vars

\* C23: column-letter round trip: column_number(column_letter(n)) = n for every
\* n in 1..1000, with column_letter(1) = A, column_letter(26) = Z and
\* column_letter(27) = AA
C23_RoundTrip ==
    /\ call_pc = "number" => outcome.number = argument
    /\ call_pc \in {"letter", "number"} =>
          /\ argument = 1 => outcome.letter = <<"A">>
          /\ argument = 26 => outcome.letter = <<"Z">>
          /\ argument = 27 => outcome.letter = <<"A", "A">>

\* 1000 converted to the letters ALL and back to 1000
C23_ThreeLetters ==
    /\ call_pc = "number" /\ argument = 1000
    /\ outcome.letter = <<"A", "L", "L">>
    /\ outcome.number = 1000

-----------------------------------------------------------------------------
(* merge_data with JSON sub-paths.  A JSON value is tagged with its type: a list
   has items, a dict has fields (a function from keys to JSON values), anything
   else is a scalar; the records in a list are the untagged records of above.  A
   sub-path is the sequence of its dot-separated segments, each a sequence of
   characters; <<>> stands for None. *)

JsonList(items) == [type |-> "list", items |-> items]

JsonDict(fields) == [type |-> "dict", fields |-> fields]

JsonScalar == [type |-> "scalar"]

\* int(key) succeeds: the segment is a run of digits
IsInteger(key) == key # <<>> /\ \A i \in 1..Len(key) : key[i] \in Range(Digits)

\* what the walk along json_path has reached: the structure, or the exception raised
Reached(entry_structure) == [entry_structure |-> entry_structure, raised |-> ""]

Raised(exception) == [entry_structure |-> JsonScalar, raised |-> exception]

RECURSIVE walk(_, _, _)
\* the loop `for key in keys` of MergeableJSONData.load_file, from segment i on;
\* `len(list)` is taken of the builtin type and raises TypeError
walk(entry_structure, keys, i) ==
    IF i > Len(keys) THEN Reached(entry_structure)
    ELSE IF entry_structure.type = "dict"
    THEN walk(IF keys[i] \in DOMAIN entry_structure.fields
              THEN entry_structure.fields[keys[i]] ELSE JsonDict(<<>>),
              keys, i + 1)
    ELSE IF entry_structure.type = "list"
    THEN IF ~IsInteger(keys[i]) THEN Raised("ParserError") ELSE Raised("TypeError")
    ELSE walk(entry_structure, keys, i + 1)

\* MergeableJSONData(file_path, id_key, json_path): the records found, or the
\* exception; the records of a dict are its values, none for the dicts used here
MergeableJSONData(file) ==
    LET end == walk(file.doc, file.sub_path, 1)
    IN  IF end.raised # "" THEN [raised |-> end.raised, is_list |-> FALSE, records |-> <<>>]
        ELSE IF end.entry_structure.type = "list"
        THEN [raised |-> "", is_list |-> TRUE, records |-> end.entry_structure.items]
        ELSE IF end.entry_structure.type = "dict"
        THEN [raised |-> "", is_list |-> FALSE, records |-> <<>>]
        ELSE [raised |-> "ParserError", is_list |-> FALSE, records |-> <<>>]

RECURSIVE Saved(_, _, _, _)
\* json_base after the merge: the list the sub-path leads to holds data_list
Saved(doc, keys, i, data_list) ==
    IF i > Len(keys) THEN JsonList(data_list)
    ELSE JsonDict([k \in DOMAIN doc.fields |->
                      IF k = keys[i] THEN Saved(doc.fields[k], keys, i + 1, data_list)
                      ELSE doc.fields[k]])

\* the try block of merge_data went through: what save_file writes
merged(in, input_handler, patch_handler) ==
    IF input_handler.is_list
    THEN Saved(in.doc, in.sub_path, 1,
               MergeableData_merge_data(load_file(input_handler.records),
                                        internal_dict_values(load_file(patch_handler.records), 1),
                                        1).data_list)
    ELSE in.doc

\* merge_data(..., "json", "json", input_sub_path, patch_sub_path), given the two
\* handlers: the file written (<<>> for none), the value returned ("" for None)
\* and the exception that left it uncaught ("" for none)
merge_data_at(in, input_handler, patch_handler) ==
    IF input_handler.raised = "ParserError" \/ (input_handler.raised = "" /\ patch_handler.raised = "ParserError")
    THEN [output |-> <<>>, returned |-> "ParserError", raised |-> ""]
    ELSE IF input_handler.raised # ""
    THEN [output |-> <<>>, returned |-> "", raised |-> input_handler.raised]
    ELSE IF patch_handler.raised # ""
    THEN [output |-> <<>>, returned |-> "", raised |-> patch_handler.raised]
    ELSE [output |-> merged(in, input_handler, patch_handler), returned |-> "", raised |-> ""]

\* the documents a file may hold: an array of records, an object whose key d
\* holds such an array, an object whose key d holds a scalar
Documents(records) ==
    { JsonList(<<r>>) : r \in records } \cup
    { JsonDict([k \in {<<"d">>} |-> JsonList(<<r>>)]) : r \in records } \cup
    { JsonDict([k \in {<<"d">>} |-> JsonScalar]) }

\* the sub-paths: None, d, d.0, d.5, d.x, m
SubPaths == { <<>>, << <<"d">> >>, << <<"d">>, <<"0">> >>, << <<"d">>, <<"5">> >>,
              << <<"d">>, <<"x">> >>, << <<"m">> >> }

Files(records) == {[doc |-> d, sub_path |-> p] : d \in Documents(records), p \in SubPaths}

PathInit ==
    /\ merge_pc = "idle"
    /\ input \in Files({[id |-> 1, a |-> 0, c |-> 3]})
    /\ patch \in Files({[id |-> 1, a |-> 1], [id |-> 2, b |-> 2]})
    /\ output = <<>>
    /\ returned = ""
    /\ SpreadsheetOff
    /\ MethodOff
    /\ StateOff

\* merge_data has returned `out`, or has been left by an exception it does not catch
MergeReturn(out) ==
    /\ merge_pc' = IF out.raised = "" THEN "done" ELSE "raised"
    /\ output' = out.output
    /\ returned' = out.returned
    /\ UNCHANGED <<input, patch>>
    /\ UNCHANGED <<spreadsheetVars, methodVars, stateVars>>

\* one run of merge_data on the two files with their sub-paths
MergeDataAt ==
    /\ merge_pc = "idle"
    /\ MergeReturn(merge_data_at(input, MergeableJSONData(input), MergeableJSONData(patch)))

PathNext == MergeDataAt

PathSpec == PathInit /\ [][PathNext]_vars

RECURSIVE Resolves(_, _, _)
\* the sub-path, from segment i on, leads to a list or an object: a key of an
\* object leads to its value (an empty object when it is missing), an integer
\* within a list to that item, which is a record
Resolves(value, keys, i) ==
    IF i > Len(keys) THEN value.type \in {"list", "dict"}
    ELSE IF value.type = "dict"
    THEN Resolves(IF keys[i] \in DOMAIN value.fields THEN value.fields[keys[i]] ELSE JsonDict(<<>>),
                  keys, i + 1)
    ELSE IF value.type = "list"
    THEN IsInteger(keys[i]) /\ DecimalValue(keys[i]) < Len(value.items) /\ i = Len(keys)
    ELSE FALSE

\* C22: when the JSON sub-path of the base or of the patch does not resolve to a
\* list or an object (a non-integer segment applied to a list, an index past the
\* end of a list, a path ending at a scalar), the merge fails with ParserError,
\* merge_data returns its message, and no output file is written
C22_UnresolvedPath ==
    (/\ merge_pc \in {"done", "raised"}
     /\ ~(Resolves(input.doc, input.sub_path, 1) /\ Resolves(patch.doc, patch.sub_path, 1))) =>
        /\ merge_pc = "done"
        /\ returned = "ParserError"
        /\ output = <<>>

\* the sub-path d.5 on a base whose list d has one record: merge_data is left by
\* a TypeError, no message is returned
C22_TypeErrorEscapes ==
    /\ merge_pc = "raised" /\ returned = ""
    /\ input.doc.type = "dict" /\ input.doc.fields[<<"d">>].type = "list"
    /\ input.sub_path = << <<"d">>, <<"5">> >>
    /\ output = <<>>

-----------------------------------------------------------------------------
(* REPLACE: the start cell *)

\* the text matches ^[A-Z]+\d+$ in full, letter case aside
ValidStartCell(start_cell) ==
    \E k \in 1..(Len(start_cell) - 1) :
        /\ \A i \in 1..k : Upper(start_cell[i]) \in Range(Letters)
        /\ \A i \in (k + 1)..Len(start_cell) : start_cell[i] \in Range(Digits)

\* C24: REPLACE with a start cell that does not match ^[A-Z]+\d+$ in full ends in
\* failure with an invalid-range error and writes at no cell
C24_InvalidStartCell ==
    (Ran("REPLACE") /\ inv.headers # <<>> /\ inv.rows # <<>> /\ ~ValidStartCell(inv.start_cell)) =>
        /\ result.relationship = "failure"
        /\ \A k \in CallsOf("write") : ~calls[k].ok

\* a REPLACE through the Microsoft processor with the start cell A1x that
\* returned success and left its block at A1
C24_WrittenAtPrefix ==
    /\ Ran("REPLACE") /\ Succeeded /\ backend = "microsoft"
    /\ inv.start_cell = <<"A", "1", "x">> /\ inv.rows # <<>>
    /\ \E k \in CallsOf("write") : calls[k].ok /\ calls[k].row = 1 /\ calls[k].col = 1
    /\ sheet = Exactly(<<"A", "1">>, Block(inv))

\* C30: a REPLACE of the Microsoft processor that fails on an invalid start
\* cell leaves the destination as it was before the invocation
C30_FailedReplaceKeepsSheet ==
    (Ran("REPLACE") /\ backend = "microsoft" /\ result.relationship = "failure"
        /\ result.error = "InvalidRange") =>
        sheet = prev

\* a Microsoft REPLACE with the start cell A on a sheet that held data: the
\* clear was accepted, then the start cell was rejected, and the sheet is empty
C30_ClearedThenRejected ==
    /\ Ran("REPLACE") /\ backend = "microsoft" /\ inv.start_cell = <<"A">>
    /\ result.relationship = "failure" /\ result.error = "InvalidRange"
    /\ prev # <<>> /\ sheet = <<>>
    /\ \E k \in CallsOf("clear") : calls[k].ok
    /\ CallsOf("write") = {}

-----------------------------------------------------------------------------
(* UPSERT: the lookup index *)

-----------------------------------------------------------------------------
(* _parse_json: the three JSON layouts of the payload *)

\* the largest number of elements of a JSON array of the payload
MaxObjects == 2

\* a JSON object as json.loads returns it: a dict, its keys in the order of the text
JsonObject(keys, fields) == [type |-> "dict", keys |-> keys, fields |-> fields]

\* row.get(h, '')
get(row, h) == IF h \in Range(row.keys) THEN row.fields[h] ELSE ""

\* a row made of the values of the object in the order of its own keys
OwnValues(row, headers) == [c \in 1..Len(row.keys) |-> row.fields[row.keys[c]]]

\* [row.get(h, '') for h in headers]
RowOf(row, headers) == [c \in 1..Len(headers) |-> get(row, headers[c])]

\* what _parse_json returns, or the exception it raises
ParseReturned(headers, rows) == [headers |-> headers, rows |-> rows, raised |-> ""]

ParseRaised(exception) == [headers |-> <<>>, rows |-> <<>>, raised |-> exception]

\* [[row.get(h, '') for h in headers] for row in rows_data]; a row that is not
\* a dict has no get
RowsUnder(rows_data, headers) ==
    IF \E i \in 1..Len(rows_data) : rows_data[i].type # "dict"
    THEN ParseRaised("AttributeError")
    ELSE ParseReturned(headers, [i \in 1..Len(rows_data) |-> RowOf(rows_data[i], headers)])

\* data = json.loads(content) is the argument; the layouts are tried in turn
_parse_json(data) ==
    IF data.type = "list" /\ Len(data.items) > 0 /\ data.items[1].type = "dict"
    THEN RowsUnder(data.items, data.items[1].keys)
    ELSE IF data.type = "dict" /\ "headers" \in Range(data.keys) /\ "rows" \in Range(data.keys)
    THEN LET headers == data.fields["headers"]
             rows_data == data.fields["rows"]
         IN  IF rows_data = <<>> THEN ParseRaised("IndexError")
             ELSE IF rows_data[1].type = "list"
             THEN ParseReturned(headers, [i \in 1..Len(rows_data) |-> rows_data[i].items])
             ELSE IF rows_data[1].type = "dict"
             THEN RowsUnder(rows_data, headers)
             ELSE ParseRaised("ValueError")
    ELSE ParseRaised("ValueError")

\* the objects of a payload: up to two of the keys id and name in either order,
\* each with one of two values
PayloadObjects ==
    {JsonObject(keys, fields) :
        keys \in {k \in SeqsOf({"id", "name"}, 0, 2) : \A a, b \in 1..Len(k) : k[a] = k[b] => a = b},
        fields \in [{"id", "name"} -> {"1", "b"}]}

\* the elements of a payload array: objects, and an array where an object is expected
PayloadItems ==
    {[type |-> o.type, keys |-> o.keys, fields |-> [k \in Range(o.keys) |-> o.fields[k]]] : o \in PayloadObjects}
        \cup {JsonList(<<"1", "b">>)}

\* the documents handed to _parse_json: arrays of up to MaxObjects elements, and
\* the layout with the fields headers and rows
ParsedDocuments ==
    {JsonList(items) : items \in SeqsOf(PayloadItems, 0, MaxObjects)}
        \cup {JsonObject(<<"headers", "rows">>, [headers |-> <<"id", "name">>, rows |-> rows_data]) :
                rows_data \in SeqsOf({JsonList(<<"1", "b">>), JsonObject(<<"name">>, [name |-> "b"])}, 0, 1)}
        \cup {JsonObject(<<"headers">>, [headers |-> <<"id", "name">>])}

ParseInit ==
    /\ call_pc = "idle"
    /\ argument \in ParsedDocuments
    /\ outcome = <<>>
    /\ SpreadsheetOff
    /\ MergeOff
    /\ StateOff

\* headers, rows = self._parse_json(content)
ParseJson ==
    /\ call_pc = "idle"
    /\ call_pc' = "parsed"
    /\ outcome' = _parse_json(argument)
    /\ UNCHANGED <<argument, spreadsheetVars, mergeVars, stateVars>>

ParseNext == ParseJson

ParseSpec == ParseInit /\ [][ParseNext]_vars

\* the document is a non-empty JSON array whose every element is an object
ArrayOfObjects(data) ==
    /\ data.type = "list" /\ data.items # <<>>
    /\ \A i \in 1..Len(data.items) : data.items[i].type = "dict"

\* C25: for a JSON array of objects the parsed headers are the keys of the first
\* object in their order, and row i has len(headers) cells, the cell under a
\* header holding the value object i has for it, the empty string when it has none
C25_ArrayOfObjects ==
    (call_pc = "parsed" /\ ArrayOfObjects(argument)) =>
        /\ outcome.raised = ""
        /\ outcome.headers = argument.items[1].keys
        /\ Len(outcome.rows) = Len(argument.items)
        /\ \A i \in 1..Len(argument.items) :
              /\ Len(outcome.rows[i]) = Len(outcome.headers)
              /\ \A c \in 1..Len(outcome.headers) :
                    outcome.rows[i][c] =
                        IF outcome.headers[c] \in Range(argument.items[i].keys)
                        THEN argument.items[i].fields[outcome.headers[c]] ELSE ""

\* an array of two objects parsed: the first has the keys name and id in that
\* order, the second lacks id and its row holds the empty string there
C25_MissingKeyBlank ==
    /\ call_pc = "parsed" /\ ArrayOfObjects(argument) /\ Len(argument.items) = 2
    /\ argument.items[1].keys = <<"name", "id">>
    /\ argument.items[2].keys = <<"name">>
    /\ outcome.headers = <<"name", "id">>
    /\ outcome.rows[2] = <<argument.items[2].fields["name"], "">>

-----------------------------------------------------------------------------
(* StatefulCounter: a count kept in the state manager *)

\* the number of invocations that run at the same time
MaxInvocations == 2

\* for i in range(5)
CounterAttempts == 5

Workers == 1..MaxInvocations

otherVars == <<spreadsheetVars, mergeVars, methodVars>>

RECURSIVE str(_)
\* str(new_count): the decimal digits of a natural number
str(n) == IF n < 10 THEN <<Digits[n + 1]>> ELSE str(n \div 10) \o <<Digits[(n % 10) + 1]>>

RECURSIVE int(_)
\* int(count_str): the number a run of decimal digits stands for
int(count_str) ==
    IF count_str = <<>> THEN 0
    ELSE 10 * int(SubSeq(count_str, 1, Len(count_str) - 1))
            + (IndexOf(Digits, count_str[Len(count_str)]) - 1)

\* what state_manager.getState(scope) hands out: the version and the map
StateMap(version, map) == [version |-> version, map |-> map]

\* count = int(count_str) if count_str else 0, of current_state_map.get("count")
CountOf(state_map) ==
    IF "count" \in DOMAIN state_map.map /\ state_map.map["count"] # <<>>
    THEN int(state_map.map["count"]) ELSE 0

\* the state manager's replace: the new map is stored, under the next version,
\* when the stored version is still the one of the map that was fetched
CompareAndSet(state_map, updated_state) ==
    IF store.version = state_map.version THEN StateMap(store.version + 1, updated_state) ELSE store

\* success = True if replace_result is None else replace_result, False when
\* the call raised
Interpreted(raised, applied) ==
    IF raised THEN FALSE ELSE IF replace_returns = "None" THEN TRUE ELSE applied

\* the counts the state may hold when the invocations start: none yet, or 9
StoredCounts == {<<>>, [count |-> <<"9">>]}

CounterInit ==
    /\ store \in {StateMap(0, m) : m \in StoredCounts}
    /\ workers = [w \in Workers |-> [pc |-> "getState", i |-> 0, state_map |-> StateMap(0, <<>>),
                                     value |-> <<>>]]
    /\ replace_returns \in {"boolean", "None"}
    /\ SpreadsheetOff
    /\ MergeOff
    /\ MethodOff

\* state_map = state_manager.getState(scope)
CounterGetState(w) ==
    /\ workers[w].pc = "getState"
    /\ workers' = [workers EXCEPT ![w].pc = "replace", ![w].state_map = store]
    /\ UNCHANGED <<store, replace_returns, otherVars>>

\* state_manager.replace(state_map, updated_state, scope) and what follows it:
\* the return with the new count, the next round of the loop, or the return
\* after the last round
CounterReplace(w) ==
    /\ workers[w].pc = "replace"
    /\ \E raised \in BOOLEAN :
        LET new_count == CountOf(workers[w].state_map) + 1
            updated_state == [count |-> str(new_count)]
            applied == store.version = workers[w].state_map.version
        IN  /\ store' = IF raised THEN store ELSE CompareAndSet(workers[w].state_map, updated_state)
            /\ workers' =
                 IF Interpreted(raised, applied)
                 THEN [workers EXCEPT ![w].pc = "success", ![w].value = str(new_count)]
                 ELSE IF workers[w].i + 1 < CounterAttempts
                 THEN [workers EXCEPT ![w].pc = "getState", ![w].i = @ + 1]
                 ELSE [workers EXCEPT ![w].pc = "failure"]
    /\ UNCHANGED <<replace_returns, otherVars>>

CounterNext == \E w \in Workers : CounterGetState(w) \/ CounterReplace(w)

CounterSpec == CounterInit /\ [][CounterNext]_vars

\* the invocations that have returned success
Successful == {w \in Workers : workers[w].pc = "success"}

\* C26: the values reported by the successful invocations are pairwise distinct,
\* and the stored count is the one the invocations found plus the number of
\* successful invocations
C26_RunningCount ==
    /\ \A v, w \in Successful : workers[v].value = workers[w].value => v = w
    /\ \E m \in StoredCounts : CountOf(store) = CountOf(StateMap(0, m)) + Cardinality(Successful)

\* two invocations started on a state without a count, both returned success
\* with the value 1, and the stored count is 1
C26_SameValueTwice ==
    /\ Successful = Workers
    /\ \A w \in Workers : workers[w].value = <<"1">>
    /\ store.map["count"] = <<"1">>
    /\ store.version = 1

-----------------------------------------------------------------------------
(* ManageState with the NiFi State Manager: SET and DELETE *)

\* for _ in range(5)
StateAttempts == 5

StateKeys == {"a", "b", "c"}

\* the state before the invocations: the key c set by an earlier SET
EarlierState == [c |-> <<"0">>]

\* current_dict[key] = str(val_to_set)
SetItem(current_dict, key, val_to_set) ==
    [k \in DOMAIN current_dict \cup {key} |-> IF k = key THEN val_to_set ELSE current_dict[k]]

\* del current_dict[key]
DelItem(current_dict, key) == [k \in DOMAIN current_dict \ {key} |-> current_dict[k]]

\* each invocation has its operation, its key and, as the value it sets, its
\* own number; replaced counts the replace calls of it that changed the state
ManagerInit ==
    /\ store = StateMap(0, EarlierState)
    /\ workers \in [Workers -> {[pc |-> "getState", i |-> 0, state_map |-> StateMap(0, <<>>),
                                 operation |-> o, key |-> k, val_to_set |-> <<>>, replaced |-> 0] :
                                    o \in {"SET", "DELETE"}, k \in StateKeys}]
    /\ replace_returns \in {"boolean", "None"}
    /\ SpreadsheetOff
    /\ MergeOff
    /\ MethodOff

\* state_map = state_manager.getState(scope); current_dict = dict(state_map.toMap());
\* a DELETE of a key that is not there returns success at once
ManagerGetState(w) ==
    /\ workers[w].pc = "getState"
    /\ workers' =
         IF workers[w].operation = "DELETE" /\ workers[w].key \notin DOMAIN store.map
         THEN [workers EXCEPT ![w].pc = "success", ![w].state_map = store]
         ELSE [workers EXCEPT ![w].pc = "replace", ![w].state_map = store,
                              ![w].val_to_set = str(w)]
    /\ UNCHANGED <<store, replace_returns, otherVars>>

\* res = state_manager.replace(state_map, current_dict, scope) and what follows
\* it: the return, the next round of the loop, or the return after the last round
ManagerReplace(w) ==
    /\ workers[w].pc = "replace"
    /\ \E raised \in BOOLEAN :
        LET current_dict == IF workers[w].operation = "SET"
                            THEN SetItem(workers[w].state_map.map, workers[w].key, workers[w].val_to_set)
                            ELSE DelItem(workers[w].state_map.map, workers[w].key)
            applied == ~raised /\ store.version = workers[w].state_map.version
        IN  /\ store' = IF raised THEN store ELSE CompareAndSet(workers[w].state_map, current_dict)
            /\ workers' =
                 IF Interpreted(raised, applied)
                 THEN [workers EXCEPT ![w].pc = "success",
                                      ![w].replaced = IF applied THEN @ + 1 ELSE @]
                 ELSE IF workers[w].i + 1 < StateAttempts
                 THEN [workers EXCEPT ![w].pc = "getState", ![w].i = @ + 1]
                 ELSE [workers EXCEPT ![w].pc = "failure"]
    /\ UNCHANGED <<replace_returns, otherVars>>

ManagerNext == \E w \in Workers : ManagerGetState(w) \/ ManagerReplace(w)

ManagerSpec == ManagerInit /\ [][ManagerNext]_vars

\* every invocation is a SET that returned success, no two of the same key
ConcurrentSets ==
    /\ \A w \in Workers : workers[w].operation = "SET" /\ workers[w].pc = "success"
    /\ \A v, w \in Workers : workers[v].key = workers[w].key => v = w

\* C28: SET and DELETE make at most 5 attempts and keep the keys they are not
\* about; concurrent SETs of different keys that all returned success leave
\* every one of their keys in the state with its value; an invocation routed to
\* failure has made its 5 attempts and none of them changed the state
C28_ReadModifyReplace ==
    /\ \A w \in Workers : workers[w].i < 5
    /\ (\A w \in Workers : workers[w].key # "c") => store.map = SetItem(store.map, "c", <<"0">>)
    /\ ConcurrentSets =>
          \A w \in Workers : store.map = SetItem(store.map, workers[w].key, workers[w].val_to_set)
    /\ \A w \in Workers : workers[w].pc = "failure" => workers[w].i = 4 /\ workers[w].replaced = 0

\* a SET of a and a SET of b both fetched the state at version 0 and both
\* returned success; the state was replaced once and holds only one of the keys
C28_KeyMissing ==
    /\ ConcurrentSets
    /\ \A w \in Workers : workers[w].key \in {"a", "b"} /\ workers[w].state_map.version = 0
    /\ store.version = 1
    /\ ~({"a", "b"} \subseteq DOMAIN store.map)

-----------------------------------------------------------------------------
(* ManageState with a JSON file: SET and DELETE *)

\* the file at file_path: whether it exists, the dict it holds, and the
\* invocation that holds the exclusive flock on it (0: none)
JsonFile(exists, data, lock) == [exists |-> exists, data |-> data, lock |-> lock]

\* the file when the invocations start: not there yet, or left by an earlier SET
FilesFound == {JsonFile(FALSE, <<>>, 0), JsonFile(TRUE, EarlierState, 0)}

FileInit ==
    /\ store \in FilesFound
    /\ workers \in [Workers -> {[pc |-> "exists", operation |-> o, key |-> k, data |-> <<>>] :
                                    o \in {"SET", "DELETE"}, k \in StateKeys}]
    /\ replace_returns = "off"
    /\ SpreadsheetOff
    /\ MergeOff
    /\ MethodOff

\* if not os.path.exists(file_path)
FileExists(w) ==
    /\ workers[w].pc = "exists"
    /\ workers' = [workers EXCEPT ![w].pc = IF store.exists THEN "open" ELSE "create"]
    /\ UNCHANGED <<store, replace_returns, otherVars>>

\* with open(file_path, 'w') as f: json.dump({}, f) -- no lock is taken
FileCreate(w) ==
    /\ workers[w].pc = "create"
    /\ store' = JsonFile(TRUE, <<>>, store.lock)
    /\ workers' = [workers EXCEPT ![w].pc = "open"]
    /\ UNCHANGED <<replace_returns, otherVars>>

\* open(file_path, 'r+'); fcntl.flock(f, fcntl.LOCK_EX) waits for the lock
FileLock(w) ==
    /\ workers[w].pc = "open"
    /\ store.lock = 0
    /\ store' = [store EXCEPT !.lock = w]
    /\ workers' = [workers EXCEPT ![w].pc = "locked"]
    /\ UNCHANGED <<replace_returns, otherVars>>

\* f.seek(0); data = json.load(f)
FileLoad(w) ==
    /\ workers[w].pc = "locked"
    /\ workers' = [workers EXCEPT ![w].pc = "loaded", ![w].data = store.data]
    /\ UNCHANGED <<store, replace_returns, otherVars>>

\* SET: data[key] = str(val_to_set), the value being the number of the
\* invocation; DELETE: del data[key] when the key is there; the file is
\* rewritten, the lock released, success returned
FileDump(w) ==
    /\ workers[w].pc = "loaded"
    /\ store' =
         IF workers[w].operation = "SET"
         THEN JsonFile(TRUE, SetItem(workers[w].data, workers[w].key, str(w)), 0)
         ELSE IF workers[w].key \in DOMAIN workers[w].data
         THEN JsonFile(TRUE, DelItem(workers[w].data, workers[w].key), 0)
         ELSE [store EXCEPT !.lock = 0]
    /\ workers' = [workers EXCEPT ![w].pc = "success"]
    /\ UNCHANGED <<replace_returns, otherVars>>

FileNext ==
    \E w \in Workers : FileExists(w) \/ FileCreate(w) \/ FileLock(w) \/ FileLoad(w) \/ FileDump(w)

FileSpec == FileInit /\ [][FileNext]_vars

\* the keys some invocation deletes
Deleted == {workers[w].key : w \in {v \in Workers : workers[v].operation = "DELETE"}}

\* C27: once every invocation has returned success, the file holds every key
\* that was SET and that no invocation deletes, with the value of a SET of it
C27_NoLostUpdate ==
    (\A w \in Workers : workers[w].pc = "success") =>
        \A w \in Workers :
            (workers[w].operation = "SET" /\ workers[w].key \notin Deleted) =>
                /\ workers[w].key \in DOMAIN store.data
                /\ \E v \in Workers : /\ workers[v].operation = "SET" /\ workers[v].key = workers[w].key
                                      /\ store.data[workers[w].key] = str(v)

\* a SET of a and a SET of b have both returned success and the file holds
\* only one of the two keys
C27_CreatedOverUpdate ==
    /\ \A w \in Workers : workers[w].pc = "success" /\ workers[w].operation = "SET"
    /\ {workers[w].key : w \in Workers} = {"a", "b"}
    /\ Cardinality(DOMAIN store.data) = 1

====
